---- MODULE Spec2Model ----
(***************************************************************************)
(* ClinicalRuleEngineAgent (src/agents/clinical_rules.py): the rule engine *)
(* that validates candidate diagnoses against the vitals and labs of a      *)
(* patient record.                                                          *)
(*                                                                          *)
(* Representation of Python values                                          *)
(*   str    a TLA+ string; characters are read with SubSeq                  *)
(*   float  an integer number of tenths (150.0 is 1500, 1.3 is 13, 6.5 is   *)
(*          65); every text of the model writes at most one fractional      *)
(*          digit, so the value float() returns is represented exactly      *)
(*   confidence  an integer number of thousandths (1.0 is 1000, 0.1 is 100) *)
(*   None   the empty tuple; a measurement value v is the 1-tuple <<v>>     *)
(*   dict   a function from its keys (strings) to its values                *)
(***************************************************************************)
EXTENDS Integers, Sequences, FiniteSets, TLC

(***************************************************************************)
(* Python values                                                            *)
(***************************************************************************)
None == <<>>

Some(v) == <<v>>

\* dict.get(key): None when the key is absent
DictGet(d, k) == IF k \in DOMAIN d THEN d[k] ELSE None

\* dict.get(key, default)
DictGetDefault(d, k, default) == IF k \in DOMAIN d THEN d[k] ELSE default

\* dict.update(other): the keys of other are added or overwritten
DictUpdate(d, other) ==
    [k \in (DOMAIN d) \cup (DOMAIN other) |->
        IF k \in DOMAIN other THEN other[k] ELSE d[k]]

\* {k: v for k, v in d.items() if v is not None}
DropNone(d) == [k \in {j \in DOMAIN d : d[j] # None} |-> d[k]]

\* the truth value of a dictionary or of None: false when empty or None
Truthy(d) == DOMAIN d # {}

Min(a, b) == IF a <= b THEN a ELSE b

Max(a, b) == IF a >= b THEN a ELSE b

(***************************************************************************)
(* Characters and strings                                                   *)
(***************************************************************************)
CharAt(s, i) == IF i >= 1 /\ i <= Len(s) THEN SubSeq(s, i, i) ELSE ""

IsDigit(c) == c \in {"0", "1", "2", "3", "4", "5", "6", "7", "8", "9"}

\* \s of the patterns
IsSpace(c) == c \in {" ", "\t", "\n"}

DigitVal(c) ==
    CASE c = "0" -> 0 [] c = "1" -> 1 [] c = "2" -> 2 [] c = "3" -> 3
      [] c = "4" -> 4 [] c = "5" -> 5 [] c = "6" -> 6 [] c = "7" -> 7
      [] c = "8" -> 8 [] c = "9" -> 9

LowerChar(c) ==
    CASE c = "A" -> "a" [] c = "B" -> "b" [] c = "C" -> "c" [] c = "D" -> "d"
      [] c = "E" -> "e" [] c = "F" -> "f" [] c = "G" -> "g" [] c = "H" -> "h"
      [] c = "I" -> "i" [] c = "J" -> "j" [] c = "K" -> "k" [] c = "L" -> "l"
      [] c = "M" -> "m" [] c = "N" -> "n" [] c = "O" -> "o" [] c = "P" -> "p"
      [] c = "Q" -> "q" [] c = "R" -> "r" [] c = "S" -> "s" [] c = "T" -> "t"
      [] c = "U" -> "u" [] c = "V" -> "v" [] c = "W" -> "w" [] c = "X" -> "x"
      [] c = "Y" -> "y" [] c = "Z" -> "z" [] OTHER -> c

RECURSIVE lower(_)
\* str.lower()
lower(s) ==
    IF s = "" THEN "" ELSE LowerChar(CharAt(s, 1)) \o lower(SubSeq(s, 2, Len(s)))

\* sub in s
Contains(sub, s) ==
    \E i \in 1..(Len(s) - Len(sub) + 1) : SubSeq(s, i, i + Len(sub) - 1) = sub

RECURSIVE SkipSpaces(_, _)
\* \s* from position i: the first position that holds no white space
SkipSpaces(s, i) == IF IsSpace(CharAt(s, i)) THEN SkipSpaces(s, i + 1) ELSE i

RECURSIVE SkipDigits(_, _)
\* \d* from position i: the first position that holds no digit
SkipDigits(s, i) == IF IsDigit(CharAt(s, i)) THEN SkipDigits(s, i + 1) ELSE i

RECURSIVE DigitsValue(_)
\* the number a string of decimal digits writes
DigitsValue(ds) ==
    IF ds = "" THEN 0
    ELSE DigitsValue(SubSeq(ds, 1, Len(ds) - 1)) * 10 + DigitVal(CharAt(ds, Len(ds)))

\* float(group), in tenths: group matches \d+ or \d+\.?\d*
float(g) ==
    LET d == SkipDigits(g, 1)
        frac == IF CharAt(g, d) = "." THEN SubSeq(g, d + 1, Len(g)) ELSE ""
    IN  DigitsValue(SubSeq(g, 1, d - 1)) * 10
          + (IF frac = "" THEN 0 ELSE DigitVal(CharAt(frac, 1)))

(***************************************************************************)
(* The patterns of _parse_vitals_from_text and _parse_labs_from_text.  A    *)
(* match is the tuple of its groups, no match is None.                      *)
(***************************************************************************)
\* label:?\s* under re.IGNORECASE at position i: the position after it, 0 when
\* the label is not there
AfterLabel(label, s, i) ==
    LET n == Len(label)
    IN  IF /\ i + n - 1 <= Len(s)
           /\ LowerChar(CharAt(s, i)) = CharAt(label, 1)
           /\ lower(SubSeq(s, i, i + n - 1)) = label
        THEN SkipSpaces(s, IF CharAt(s, i + n) = ":" THEN i + n + 1 ELSE i + n)
        ELSE 0

\* mutant: the integer patterns take a decimal part too, (\d+\.?\d*)
MatchIntAt_Decimal(label, s, i) ==
    LET c == AfterLabel(label, s, i)
        d == SkipDigits(s, c)
        e == IF CharAt(s, d) = "." THEN SkipDigits(s, d + 1) ELSE d
    IN  IF c = 0 \/ d = c THEN None ELSE <<SubSeq(s, c, e - 1)>>

\* label:?\s*(\d+) at position i
MatchIntAt(label, s, i) ==
    LET c == AfterLabel(label, s, i)
        d == SkipDigits(s, c)
    IN  IF c = 0 \/ d = c THEN None ELSE <<SubSeq(s, c, d - 1)>>

\* label:?\s*(\d+\.?\d*) at position i
MatchDecimalAt(label, s, i) ==
    LET c == AfterLabel(label, s, i)
        d == SkipDigits(s, c)
        e == IF CharAt(s, d) = "." THEN SkipDigits(s, d + 1) ELSE d
    IN  IF c = 0 \/ d = c THEN None ELSE <<SubSeq(s, c, e - 1)>>

\* mutant: the two groups of the BP pattern are taken in the wrong order
MatchBPAt_Swapped(s, i) ==
    LET c == AfterLabel("bp", s, i)
        d == SkipDigits(s, c)
        e == SkipDigits(s, d + 1)
    IN  IF c = 0 \/ d = c \/ CharAt(s, d) # "/" \/ e = d + 1 THEN None
        ELSE <<SubSeq(s, d + 1, e - 1), SubSeq(s, c, d - 1)>>

\* BP:?\s*(\d+)/(\d+) at position i
MatchBPAt(s, i) ==
    LET c == AfterLabel("bp", s, i)
        d == SkipDigits(s, c)
        e == SkipDigits(s, d + 1)
    IN  IF c = 0 \/ d = c \/ CharAt(s, d) # "/" \/ e = d + 1 THEN None
        ELSE <<SubSeq(s, c, d - 1), SubSeq(s, d + 1, e - 1)>>

\* re.search: the match at the leftmost position that has one
FirstHit(s, hits) ==
    IF hits = {} THEN 0 ELSE CHOOSE i \in hits : \A j \in hits : i <= j

re_search_int(label, s) ==
    LET i == FirstHit(s, {j \in 1..Len(s) : MatchIntAt(label, s, j) # None})
    IN  IF i = 0 THEN None ELSE MatchIntAt(label, s, i)

re_search_decimal(label, s) ==
    LET i == FirstHit(s, {j \in 1..Len(s) : MatchDecimalAt(label, s, j) # None})
    IN  IF i = 0 THEN None ELSE MatchDecimalAt(label, s, i)

re_search_bp(s) ==
    LET i == FirstHit(s, {j \in 1..Len(s) : MatchBPAt(s, j) # None})
    IN  IF i = 0 THEN None ELSE MatchBPAt(s, i)

\* vitals[key] = float(match.group(1)) when the pattern matched
SetIfMatch(d, key, match) ==
    IF match = None THEN d ELSE DictUpdate(d, [k \in {key} |-> Some(float(match[1]))])

_parse_vitals_from_text(vitals_text) ==
    LET bp_match == re_search_bp(vitals_text)
        v0 == <<>>
        v1 == IF bp_match = None THEN v0
              ELSE DictUpdate(v0, [systolic_bp |-> Some(float(bp_match[1])),
                                   diastolic_bp |-> Some(float(bp_match[2]))])
        v2 == SetIfMatch(v1, "heart_rate", re_search_int("hr", vitals_text))
        v3 == SetIfMatch(v2, "temperature", re_search_decimal("temp", vitals_text))
    IN  SetIfMatch(v3, "spo2", re_search_int("spo2", vitals_text))

_parse_labs_from_text(labs_text) ==
    LET l0 == <<>>
        l1 == SetIfMatch(l0, "glucose", re_search_decimal("glucose", labs_text))
        l2 == SetIfMatch(l1, "hemoglobin", re_search_decimal("hemoglobin", labs_text))
        l3 == SetIfMatch(l2, "creatinine", re_search_decimal("creatinine", labs_text))
    IN  SetIfMatch(l3, "hba1c", re_search_decimal("hba1c", labs_text))

(***************************************************************************)
(* The extractor                                                            *)
(***************************************************************************)
\* mutant: the respiratory rate is read from the attribute respiratory_rate
StructuredVitals_SameName(patient) ==
    [systolic_bp      |-> DictGet(patient, "systolic_bp"),
     diastolic_bp     |-> DictGet(patient, "diastolic_bp"),
     heart_rate       |-> DictGet(patient, "heart_rate"),
     respiratory_rate |-> DictGet(patient, "respiratory_rate"),
     temperature      |-> DictGet(patient, "temperature"),
     spo2             |-> DictGet(patient, "spo2")]

\* the structured attributes copied by vitals.update({...})
StructuredVitals(patient) ==
    [systolic_bp      |-> DictGet(patient, "systolic_bp"),
     diastolic_bp     |-> DictGet(patient, "diastolic_bp"),
     heart_rate       |-> DictGet(patient, "heart_rate"),
     respiratory_rate |-> DictGet(patient, "resp_rate"),
     temperature      |-> DictGet(patient, "temperature"),
     spo2             |-> DictGet(patient, "spo2")]

\* mutant: the text is applied first, the structured attributes second
_extract_vitals_StructuredLast(pd) ==
    LET patient == DictGet(pd, "patient")
        vitals_text == DictGetDefault(pd, "vitals", "")
        v1 == IF vitals_text # "" THEN _parse_vitals_from_text(vitals_text) ELSE <<>>
        v2 == IF Truthy(patient) THEN DictUpdate(v1, StructuredVitals(patient)) ELSE v1
    IN  DropNone(v2)

_extract_vitals(pd) ==
    LET patient == DictGet(pd, "patient")
        v1 == IF Truthy(patient) THEN StructuredVitals(patient) ELSE <<>>
        vitals_text == DictGetDefault(pd, "vitals", "")
        v2 == IF vitals_text # ""
              THEN DictUpdate(v1, _parse_vitals_from_text(vitals_text)) ELSE v1
    IN  DropNone(v2)

_extract_labs(pd) ==
    LET labs_text == DictGetDefault(pd, "labs", "")
    IN  IF labs_text # "" THEN _parse_labs_from_text(labs_text) ELSE <<>>

(***************************************************************************)
(* Verdicts.  reason and notes are the f-strings of the source, kept as the *)
(* tuple of their text and the values they embed.                           *)
(***************************************************************************)
Verdict(valid, maxc, sev, reason, notes) ==
    [is_valid |-> valid, max_confidence |-> maxc, severity |-> sev,
     reason |-> reason, notes |-> notes]

\* the value of a measurement that is not None, in tenths
Num(m) == m[1]

\* mutant: both thresholds required (and for or)
hypertension_criteria_Both(systolic, diastolic) ==
    Num(systolic) >= 1400 /\ Num(diastolic) >= 900

\* mutant: the thresholds compared strictly
hypertension_criteria_Strict(systolic, diastolic) ==
    Num(systolic) > 1400 \/ Num(diastolic) > 900

\* SBP >= 140 OR DBP >= 90
hypertension_criteria(systolic, diastolic) ==
    Num(systolic) >= 1400 \/ Num(diastolic) >= 900

\* the None test of _validate_hypertension
hypertension_missing(systolic, diastolic) == systolic = None \/ diastolic = None

_validate_hypertension(vitals, evidence) ==
    LET systolic == DictGet(vitals, "systolic_bp")
        diastolic == DictGet(vitals, "diastolic_bp")
    IN  IF hypertension_missing(systolic, diastolic)
        THEN Verdict(FALSE, 500, "WARNING",
                 <<"Blood pressure values not available for hypertension diagnosis">>,
                 <<"Cannot validate hypertension without BP measurements">>)
        ELSE IF hypertension_criteria(systolic, diastolic)
        THEN Verdict(TRUE, 1000, "INFO",
                 <<"BP", systolic, diastolic, "meets hypertension criteria">>,
                 <<"Validated: BP", systolic, diastolic, ">= 140/90">>)
        ELSE Verdict(FALSE, 0, "CRITICAL",
                 <<"BP", systolic, diastolic, "is NORMAL (not hypertensive)">>,
                 <<"INVALID: BP", systolic, diastolic, "does not meet hypertension criteria">>)

\* SBP < 90
hypotension_criteria(systolic) == Num(systolic) < 900

\* mutant: the refuted branch keeps the cap of the missing-measurement branch
_validate_hypotension_SoftFail(vitals, evidence) ==
    LET systolic == DictGet(vitals, "systolic_bp")
    IN  IF systolic = None
        THEN Verdict(FALSE, 500, "WARNING",
                 <<"Blood pressure values not available">>,
                 <<"Cannot validate hypotension without BP measurements">>)
        ELSE IF hypotension_criteria(systolic)
        THEN Verdict(TRUE, 1000, "INFO",
                 <<"SBP", systolic, "meets hypotension criteria">>,
                 <<"Validated: SBP", systolic, "< 90">>)
        ELSE Verdict(FALSE, 500, "CRITICAL",
                 <<"SBP", systolic, "is NORMAL (not hypotensive)">>,
                 <<"INVALID: SBP", systolic, "does not meet hypotension criteria">>)

_validate_hypotension(vitals, evidence) ==
    LET systolic == DictGet(vitals, "systolic_bp")
    IN  IF systolic = None
        THEN Verdict(FALSE, 500, "WARNING",
                 <<"Blood pressure values not available">>,
                 <<"Cannot validate hypotension without BP measurements">>)
        ELSE IF hypotension_criteria(systolic)
        THEN Verdict(TRUE, 1000, "INFO",
                 <<"SBP", systolic, "meets hypotension criteria">>,
                 <<"Validated: SBP", systolic, "< 90">>)
        ELSE Verdict(FALSE, 0, "CRITICAL",
                 <<"SBP", systolic, "is NORMAL (not hypotensive)">>,
                 <<"INVALID: SBP", systolic, "does not meet hypotension criteria">>)

\* HR > 100 bpm
tachycardia_criteria(heart_rate) == Num(heart_rate) > 1000

\* mutant: palpitations in the evidence count as a fast heart rate
_validate_tachycardia_Evidence(vitals, evidence) ==
    LET heart_rate == DictGet(vitals, "heart_rate")
    IN  IF heart_rate = None /\ ~Contains("palpitations", lower(evidence))
        THEN Verdict(FALSE, 500, "WARNING",
                 <<"Heart rate not available">>,
                 <<"Cannot validate tachycardia without heart rate">>)
        ELSE IF Contains("palpitations", lower(evidence))
                \/ tachycardia_criteria(heart_rate)
        THEN Verdict(TRUE, 1000, "INFO",
                 <<"HR", heart_rate, "bpm meets tachycardia criteria">>,
                 <<"Validated: HR", heart_rate, "> 100 bpm">>)
        ELSE Verdict(FALSE, 0, "CRITICAL",
                 <<"HR", heart_rate, "bpm is NORMAL (not tachycardic)">>,
                 <<"INVALID: HR", heart_rate, "does not meet tachycardia criteria">>)

_validate_tachycardia(vitals, evidence) ==
    LET heart_rate == DictGet(vitals, "heart_rate")
    IN  IF heart_rate = None
        THEN Verdict(FALSE, 500, "WARNING",
                 <<"Heart rate not available">>,
                 <<"Cannot validate tachycardia without heart rate">>)
        ELSE IF tachycardia_criteria(heart_rate)
        THEN Verdict(TRUE, 1000, "INFO",
                 <<"HR", heart_rate, "bpm meets tachycardia criteria">>,
                 <<"Validated: HR", heart_rate, "> 100 bpm">>)
        ELSE Verdict(FALSE, 0, "CRITICAL",
                 <<"HR", heart_rate, "bpm is NORMAL (not tachycardic)">>,
                 <<"INVALID: HR", heart_rate, "does not meet tachycardia criteria">>)

\* HR < 60 bpm
bradycardia_criteria(heart_rate) == Num(heart_rate) < 600

_validate_bradycardia(vitals, evidence) ==
    LET heart_rate == DictGet(vitals, "heart_rate")
    IN  IF heart_rate = None
        THEN Verdict(FALSE, 500, "WARNING",
                 <<"Heart rate not available">>,
                 <<"Cannot validate bradycardia without heart rate">>)
        ELSE IF bradycardia_criteria(heart_rate)
        THEN Verdict(TRUE, 1000, "INFO",
                 <<"HR", heart_rate, "bpm meets bradycardia criteria">>,
                 <<"Validated: HR", heart_rate, "< 60 bpm">>)
        ELSE Verdict(FALSE, 0, "CRITICAL",
                 <<"HR", heart_rate, "bpm is NORMAL (not bradycardic)">>,
                 <<"INVALID: HR", heart_rate, "does not meet bradycardia criteria">>)

\* the truth value of a float or of None: false when None or 0.0
TruthyNum(m) == m # None /\ Num(m) # 0

\* mutant: glucose compared strictly
glucose_criteria_Strict(glucose) == TruthyNum(glucose) /\ Num(glucose) > 1260

\* glucose and glucose >= 126
glucose_criteria(glucose) == TruthyNum(glucose) /\ Num(glucose) >= 1260

\* hba1c and hba1c >= 6.5
hba1c_criteria(hba1c) == TruthyNum(hba1c) /\ Num(hba1c) >= 65

\* mutant: WARNING as soon as one of the two values is missing
diabetes_missing_Either(glucose, hba1c) == glucose = None \/ hba1c = None

\* the None test of _validate_diabetes
diabetes_missing(glucose, hba1c) == glucose = None /\ hba1c = None

_validate_diabetes(labs, evidence) ==
    LET glucose == DictGet(labs, "glucose")
        hba1c == DictGet(labs, "hba1c")
        glucose_text == IF TruthyNum(glucose) THEN <<"Glucose:", glucose, "mg/dL">>
                        ELSE <<"Glucose: N/A">>
        hba1c_text == IF TruthyNum(hba1c) THEN <<"HbA1c:", hba1c, "%">>
                      ELSE <<"HbA1c: N/A">>
    IN  IF diabetes_missing(glucose, hba1c)
        THEN Verdict(FALSE, 500, "WARNING",
                 <<"No glucose or HbA1c values available">>,
                 <<"Cannot validate diabetes without glucose or HbA1c">>)
        ELSE IF glucose_criteria(glucose)
        THEN Verdict(TRUE, 1000, "INFO",
                 <<"Glucose", glucose, "mg/dL meets diabetes criteria">>,
                 <<"Validated: Glucose", glucose, ">= 126 mg/dL">>)
        ELSE IF hba1c_criteria(hba1c)
        THEN Verdict(TRUE, 1000, "INFO",
                 <<"HbA1c", hba1c, "% meets diabetes criteria">>,
                 <<"Validated: HbA1c", hba1c, ">= 6.5%">>)
        ELSE Verdict(FALSE, 0, "CRITICAL",
                 <<"Lab values do not meet diabetes criteria.", glucose_text, hba1c_text>>,
                 <<"INVALID: Neither glucose (>=126) nor HbA1c (>=6.5%) criteria met">>)

\* mutant: the limit itself counts as anemia
anemia_criteria_Inclusive(hemoglobin) == Num(hemoglobin) <= 120

\* Hemoglobin < 12 g/dL
anemia_criteria(hemoglobin) == Num(hemoglobin) < 120

_validate_anemia(labs, evidence) ==
    LET hemoglobin == DictGet(labs, "hemoglobin")
    IN  IF hemoglobin = None
        THEN Verdict(FALSE, 500, "WARNING",
                 <<"Hemoglobin value not available">>,
                 <<"Cannot validate anemia without hemoglobin">>)
        ELSE IF anemia_criteria(hemoglobin)
        THEN Verdict(TRUE, 1000, "INFO",
                 <<"Hemoglobin", hemoglobin, "g/dL meets anemia criteria">>,
                 <<"Validated: Hemoglobin", hemoglobin, "< 12 g/dL">>)
        ELSE Verdict(FALSE, 0, "CRITICAL",
                 <<"Hemoglobin", hemoglobin, "g/dL is NORMAL (not anemic)">>,
                 <<"INVALID: Hemoglobin", hemoglobin, "does not meet anemia criteria">>)

\* Creatinine > 1.3 mg/dL
kidney_criteria(creatinine) == Num(creatinine) > 13

_validate_kidney_disease(labs, evidence) ==
    LET creatinine == DictGet(labs, "creatinine")
    IN  IF creatinine = None
        THEN Verdict(FALSE, 500, "WARNING",
                 <<"Creatinine value not available">>,
                 <<"Cannot validate kidney disease without creatinine">>)
        ELSE IF kidney_criteria(creatinine)
        THEN Verdict(TRUE, 1000, "INFO",
                 <<"Creatinine", creatinine, "mg/dL suggests kidney dysfunction">>,
                 <<"Validated: Creatinine", creatinine, "> 1.3 mg/dL">>)
        ELSE Verdict(FALSE, 0, "CRITICAL",
                 <<"Creatinine", creatinine, "mg/dL is NORMAL">>,
                 <<"INVALID: Creatinine", creatinine, "does not suggest kidney disease">>)

\* mutant: a name without rule is flagged as unverifiable
NoRuleVerdict_Flagged ==
    [is_valid |-> FALSE, max_confidence |-> 500, severity |-> "WARNING",
     reason |-> <<"No specific validation rule available">>,
     notes |-> <<"Diagnosis not validated by clinical rules engine">>]

\* the else branch of the dispatch: no rule for this name
NoRuleVerdict ==
    Verdict(TRUE, 1000, "INFO",
        <<"No specific validation rule available">>,
        <<"Diagnosis not validated by clinical rules engine">>)

\* mutant: the tachycardia branch stands before the hypertension branch
RuleOf_TachycardiaFirst(diagnosis_name) ==
    IF Contains("tachycardia", diagnosis_name) THEN "tachycardia"
    ELSE IF Contains("hypertension", diagnosis_name) THEN "hypertension"
    ELSE IF Contains("hypotension", diagnosis_name) THEN "hypotension"
    ELSE IF Contains("bradycardia", diagnosis_name) THEN "bradycardia"
    ELSE IF Contains("diabetes", diagnosis_name) \/ Contains("diabetic", diagnosis_name)
         THEN "diabetes"
    ELSE IF Contains("anemia", diagnosis_name) THEN "anemia"
    ELSE IF Contains("kidney", diagnosis_name) \/ Contains("renal", diagnosis_name)
         THEN "kidney_disease"
    ELSE "none"

\* the if/elif chain of _validate_single_diagnosis: the rule a name goes to
RuleOf(diagnosis_name) ==
    IF Contains("hypertension", diagnosis_name) THEN "hypertension"
    ELSE IF Contains("hypotension", diagnosis_name) THEN "hypotension"
    ELSE IF Contains("tachycardia", diagnosis_name) THEN "tachycardia"
    ELSE IF Contains("bradycardia", diagnosis_name) THEN "bradycardia"
    ELSE IF Contains("diabetes", diagnosis_name) \/ Contains("diabetic", diagnosis_name)
         THEN "diabetes"
    ELSE IF Contains("anemia", diagnosis_name) THEN "anemia"
    ELSE IF Contains("kidney", diagnosis_name) \/ Contains("renal", diagnosis_name)
         THEN "kidney_disease"
    ELSE "none"

\* _validate_single_diagnosis once vitals and labs are extracted
ApplyRule(rule, vitals, labs, evidence) ==
    CASE rule = "hypertension"   -> _validate_hypertension(vitals, evidence)
      [] rule = "hypotension"    -> _validate_hypotension(vitals, evidence)
      [] rule = "tachycardia"    -> _validate_tachycardia(vitals, evidence)
      [] rule = "bradycardia"    -> _validate_bradycardia(vitals, evidence)
      [] rule = "diabetes"       -> _validate_diabetes(labs, evidence)
      [] rule = "anemia"         -> _validate_anemia(labs, evidence)
      [] rule = "kidney_disease" -> _validate_kidney_disease(labs, evidence)
      [] OTHER                   -> NoRuleVerdict

_validate_single_diagnosis(diagnosis_name, pd, evidence) ==
    ApplyRule(RuleOf(diagnosis_name), _extract_vitals(pd), _extract_labs(pd), evidence)

(***************************************************************************)
(* validate_diagnoses: one call, one action for each way an iteration of    *)
(* the for loop ends.                                                       *)
(***************************************************************************)
VARIABLES
    patient_data,         \* argument: the patient record
    diagnoses,            \* argument: the list of candidates
    idx,                  \* the for loop: index of the next candidate (1-based)
    validated_diagnoses,  \* the list being built, returned at the end
    validation_result,    \* the verdict of the last candidate processed
    vitals,               \* the vitals extracted for the last candidate
    labs,                 \* the labs extracted for the last candidate
    pc,                   \* "loop", "done" (returned) or "raised" (KeyError)
    log,                  \* history: for each candidate processed, its verdict and fate
    self,                 \* the engine instance the call runs on (1-based)
    clinical_rules,       \* the field clinical_rules of every instance constructed
    earlier,              \* history: the outcomes of the earlier calls on these arguments
    calls,                \* the frames of the calls that share one instance
    main                  \* the run of the application started by the button

vars == <<patient_data, diagnoses, idx, validated_diagnoses, validation_result,
          vitals, labs, pc, log, self, clinical_rules, earlier, calls, main>>

\* the instances, the histories and the caller's locals a single iteration
\* never touches
instance_vars == <<self, clinical_rules, earlier, calls, main>>

\* the locals of main when no run was started
NoRun == [pc |-> "idle"]

\* the longest candidate list of the model
MaxDiag == 3

\* _initialize_clinical_rules: the catalog stored in self.clinical_rules
_initialize_clinical_rules ==
    [hypertension   |-> [criteria |-> "SBP >= 140 OR DBP >= 90",
                         thresholds |-> [systolic |-> 1400, diastolic |-> 900]],
     hypotension    |-> [criteria |-> "SBP < 90",
                         thresholds |-> [systolic |-> 900]],
     tachycardia    |-> [criteria |-> "HR > 100 bpm",
                         thresholds |-> [heart_rate |-> 1000]],
     bradycardia    |-> [criteria |-> "HR < 60 bpm",
                         thresholds |-> [heart_rate |-> 600]],
     diabetes       |-> [criteria |-> "Glucose >= 126 mg/dL OR HbA1c >= 6.5%",
                         thresholds |-> [glucose |-> 1260, hba1c |-> 65]],
     anemia         |-> [criteria |-> "Hemoglobin < 12 g/dL",
                         thresholds |-> [hemoglobin |-> 120]],
     kidney_disease |-> [criteria |-> "Creatinine > 1.3 mg/dL",
                         thresholds |-> [creatinine |-> 13]]]

\* __init__: a new instance, its field set from the catalog
Construct(instances) == Append(instances, _initialize_clinical_rules)

\* what the extraction leaves in the caller's patient record: _extract_vitals
\* and _extract_labs fill dictionaries of their own and only read patient_data
PatientAfterExtract(pd) == pd

\* mutant: the candidate is updated in place and appended
CandidateAfterEmit_InPlace(d, record) == record

\* what emitting a record leaves in the candidate: the record is a dictionary
\* display of its own, the candidate is only read
CandidateAfterEmit(d, record) == d

\* mutant: the list survives the call (a list kept on the instance)
NewList_Kept(previous) == previous

\* validated_diagnoses = []
NewList(previous) == <<>>

\* the locals of the loop body
diagnosis == diagnoses[idx]

diagnosis_name == lower(DictGetDefault(diagnosis, "name", ""))

\* mutant: a missing confidence defaults to 1.0
confidence_DefaultOne == DictGetDefault(diagnosis, "confidence", 1000)

confidence == DictGetDefault(diagnosis, "confidence", 0)

evidence == DictGetDefault(diagnosis, "evidence", "")

\* confidence * 0.3
Attenuated(c) == (c * 3) \div 10

\* mutant: the confidence is clamped into [0, max_confidence]
ValidatedConfidence_Clamped(c, maxc) == Max(0, Min(c, maxc))

\* mutant: the cap of the verdict is forgotten
ValidatedConfidence_Uncapped(c, maxc) == c

\* min(confidence, validation_result['max_confidence'])
ValidatedConfidence(c, maxc) == Min(c, maxc)

\* mutant: the floor of 0.1 is forgotten
FlaggedConfidence_NoFloor(c) == Attenuated(c)

\* mutant: confidence * 3 for confidence * 0.3
FlaggedConfidence_Tripled(c) == Max(100, c * 3)

\* max(0.1, confidence * 0.3)
FlaggedConfidence(c) == Max(100, Attenuated(c))

\* mutant: insert(0, record) for append(record)
ListAppend_Front(list, record) == <<record>> \o list

\* mutant: a record equal to one already in the list is not appended again
ListAppend_Unique(list, record) ==
    IF \E i \in 1..Len(list) : list[i] = record THEN list ELSE Append(list, record)

\* validated_diagnoses.append(record)
ListAppend(list, record) == Append(list, record)

\* mutant: the record carries the lower-cased name used for the dispatch
ValidatedRecord_LowerName(d, c, e, vr) ==
    [name |-> lower(d["name"]),
     confidence |-> ValidatedConfidence(c, vr.max_confidence),
     evidence |-> e,
     validation_status |-> "VALIDATED",
     rule_engine_notes |-> vr.notes]

\* the record appended when the verdict is valid
ValidatedRecord(d, c, e, vr) ==
    [name |-> d["name"],
     confidence |-> ValidatedConfidence(c, vr.max_confidence),
     evidence |-> e,
     validation_status |-> "VALIDATED",
     rule_engine_notes |-> vr.notes]

\* the record appended when the verdict is invalid and not CRITICAL
FlaggedRecord(d, c, e, vr) ==
    [name |-> d["name"],
     confidence |-> FlaggedConfidence(c),
     evidence |-> e,
     validation_status |-> "FLAGGED",
     rule_engine_notes |-> <<"WARNING: ">> \o vr.reason]

\* if validation_result['is_valid']
TakesValidBranch(vr) == vr.is_valid

\* mutant: every invalid verdict is dropped, whatever its severity
TakesDropBranch_AnyInvalid(vr) == ~vr.is_valid

\* if validation_result['severity'] == 'CRITICAL' (in the else branch)
TakesDropBranch(vr) == ~vr.is_valid /\ vr.severity = "CRITICAL"

\* diagnosis['name'] raises KeyError when the key is absent
NameRaises(d) == "name" \notin DOMAIN d

NoVerdict == Verdict(FALSE, 0, "NONE", <<>>, <<>>)

\* what every iteration does before it branches
Iterate(fate, out) ==
    /\ pc = "loop"
    /\ idx <= Len(diagnoses)
    /\ vitals' = _extract_vitals(patient_data)
    /\ labs' = _extract_labs(patient_data)
    /\ validation_result' =
           ApplyRule(RuleOf(diagnosis_name), vitals', labs', evidence)
    /\ log' = Append(log, [verdict |-> validation_result', fate |-> fate, out |-> out])
    /\ patient_data' = PatientAfterExtract(patient_data)
    /\ UNCHANGED instance_vars

EmitValidated ==
    /\ Iterate("VALIDATED", Len(validated_diagnoses) + 1)
    /\ TakesValidBranch(validation_result')
    /\ ~NameRaises(diagnosis)
    /\ validated_diagnoses' = ListAppend(validated_diagnoses,
           ValidatedRecord(diagnosis, confidence, evidence, validation_result'))
    /\ diagnoses' = [diagnoses EXCEPT ![idx] = CandidateAfterEmit(diagnosis,
           ValidatedRecord(diagnosis, confidence, evidence, validation_result'))]
    /\ idx' = idx + 1
    /\ pc' = pc

EmitFlagged ==
    /\ Iterate("FLAGGED", Len(validated_diagnoses) + 1)
    /\ ~TakesValidBranch(validation_result')
    /\ ~TakesDropBranch(validation_result')
    /\ ~NameRaises(diagnosis)
    /\ validated_diagnoses' = ListAppend(validated_diagnoses,
           FlaggedRecord(diagnosis, confidence, evidence, validation_result'))
    /\ diagnoses' = [diagnoses EXCEPT ![idx] = CandidateAfterEmit(diagnosis,
           FlaggedRecord(diagnosis, confidence, evidence, validation_result'))]
    /\ idx' = idx + 1
    /\ pc' = pc

DropCritical ==
    /\ Iterate("DROPPED", 0)
    /\ ~TakesValidBranch(validation_result')
    /\ TakesDropBranch(validation_result')
    /\ idx' = idx + 1
    /\ UNCHANGED <<diagnoses, validated_diagnoses, pc>>

\* building the output record evaluates diagnosis['name'] first: KeyError
\* leaves the call, and the list built so far is lost with its frame
RaiseKeyError ==
    /\ Iterate("RAISED", 0)
    /\ TakesValidBranch(validation_result') \/ ~TakesDropBranch(validation_result')
    /\ NameRaises(diagnosis)
    /\ pc' = "raised"
    /\ UNCHANGED <<diagnoses, validated_diagnoses, idx>>

Return ==
    /\ pc = "loop"
    /\ idx > Len(diagnoses)
    /\ pc' = "done"
    /\ UNCHANGED <<patient_data, diagnoses, idx, validated_diagnoses,
                   validation_result, vitals, labs, log>>
    /\ UNCHANGED instance_vars

\* how a call ended: the list it returned, or the exception that left it
Outcome == [pc |-> pc, result |-> IF pc = "done" THEN validated_diagnoses ELSE <<>>]

MaxCalls == 2

\* the caller runs validate_diagnoses once more with the same arguments, on
\* the same instance or on one it constructs for the purpose
CallAgain ==
    /\ pc \in {"done", "raised"}
    /\ Len(earlier) + 1 < MaxCalls
    /\ earlier' = Append(earlier, Outcome)
    /\ \/ UNCHANGED <<self, clinical_rules>>
       \/ /\ clinical_rules' = Construct(clinical_rules)
          /\ self' = Len(clinical_rules')
    /\ validated_diagnoses' = NewList(validated_diagnoses)
    /\ idx' = 1
    /\ validation_result' = NoVerdict
    /\ vitals' = <<>>
    /\ labs' = <<>>
    /\ pc' = "loop"
    /\ log' = <<>>
    /\ UNCHANGED <<patient_data, diagnoses, calls, main>>

Next == EmitValidated \/ EmitFlagged \/ DropCritical \/ RaiseKeyError \/ Return

(***************************************************************************)
(* The inputs of the model                                                  *)
(***************************************************************************)
\* a patient attribute: the key is absent when no measurement is given
Attr(key, v) == IF v = None THEN <<>> ELSE [k \in {key} |-> v]

\* a patient record without the keys whose part is empty
Record(patient, vitals_text, labs_text) ==
    DictUpdate(DictUpdate(IF Truthy(patient) THEN [patient |-> patient] ELSE <<>>,
                          IF vitals_text # "" THEN [vitals |-> vitals_text] ELSE <<>>),
               IF labs_text # "" THEN [labs |-> labs_text] ELSE <<>>)

\* structured vitals around every threshold of the vitals rules
StructuredPatients ==
    { DictUpdate(DictUpdate(Attr("systolic_bp", s), Attr("diastolic_bp", d)),
                 Attr("heart_rate", h)) :
        s \in {None, Some(890), Some(900), Some(1390), Some(1400)},
        d \in {None, Some(890), Some(900)},
        h \in {None, Some(590), Some(600), Some(1000), Some(1010)} }

VitalsTexts ==
    { "BP: 150/95, HR: 110", "bp 118/76 hr 72", "BP:139/89", "BP: 140/80, HR: 100",
      "Bp 120/90 Temp: 98.6 SpO2: 97", "HR: 55", "vitals stable, BP high" }

\* a lab text: the fragments that are not empty, separated by ", "
Join(a, b) == IF a = "" THEN b ELSE IF b = "" THEN a ELSE a \o ", " \o b

LabsTexts ==
    { Join(Join(g, a), Join(h, c)) :
        g \in {"", "Glucose: 130", "Glucose: 126", "glucose 125.9", "Glucose: 0"},
        a \in {"", "HbA1c: 6.5", "hba1c 6.4", "HbA1c: 7.2"},
        h \in {"", "Hemoglobin: 12.0", "Hemoglobin: 11.9"},
        c \in {"", "Creatinine: 1.3", "creatinine:1.4"} }

\* records that vary the vitals, and records that vary the labs
RulePatients ==
    { Record(p, "", "") : p \in StructuredPatients }
      \cup { Record(p, t, "") :
               p \in {<<>>, [systolic_bp |-> Some(1500), heart_rate |-> None,
                             resp_rate |-> Some(220)]},
               t \in VitalsTexts }
      \cup { Record(<<>>, "", t) : t \in LabsTexts }

Names ==
    { "Hypertension", "HYPOTENSION", "Tachycardia", "Sinus Bradycardia",
      "Type 2 Diabetes", "Diabetic kidney disease", "Iron Deficiency Anemia",
      "Chronic Kidney Disease", "Acute renal failure", "Migraine", "",
      "Hypertension with tachycardia" }

\* a dictionary that holds key only when Some value is given for it
Key(key, opt) == IF opt = None THEN <<>> ELSE [k \in {key} |-> opt[1]]

\* one candidate, with or without each of its keys
Candidate(name, conf, ev) ==
    DictUpdate(DictUpdate(Key("name", name), Key("confidence", conf)),
               Key("evidence", ev))

RuleCandidates ==
    { Candidate(Some(n), c, Some("e")) :
        n \in Names, c \in {None, Some(900), Some(1500)} }
      \cup { Candidate(None, Some(900), Some("e")) }

\* candidates whose confidence runs over values inside and outside [0, 1]
ConfidenceCandidates ==
    { Candidate(Some(n), Some(c), Some("e")) :
        n \in {"Migraine", "HYPOTENSION", "Tachycardia", "Iron Deficiency Anemia"},
        c \in {-200, 0, 50, 100, 340, 1000, 2000} }

\* the candidates and records of the batches
BatchCandidates ==
    { Candidate(Some("Hypertension"), Some(900), Some("BP elevated")),
      Candidate(Some("Migraine"), Some(800), Some("headache")),
      Candidate(Some("Migraine"), None, None),
      Candidate(Some("Tachycardia"), None, Some("palpitations")),
      Candidate(Some("Iron Deficiency Anemia"), Some(700), Some("fatigue")),
      Candidate(Some("Type 2 Diabetes"), Some(1000), Some("polyuria")),
      Candidate(None, Some(500), Some("unnamed")) }

BatchPatients ==
    { Record(<<>>, "BP: 118/76, HR: 72", "Glucose: 130"),
      Record(<<>>, "BP: 150/95, HR: 110", "Hemoglobin: 12.0"),
      Record([systolic_bp |-> Some(1500)], "", "Hemoglobin: 11.9, HbA1c: 6.0"),
      [patient |-> <<>>, vitals |-> "", labs |-> ""],
      Record([heart_rate |-> Some(1200)], "BP: 118/76", "") }

\* readings as they are written and the number each writes, in tenths
SystolicReadings ==
    { [text |-> "118", value |-> 1180], [text |-> "139", value |-> 1390],
      [text |-> "140", value |-> 1400], [text |-> "150", value |-> 1500] }

DiastolicReadings ==
    { [text |-> "89", value |-> 890], [text |-> "90", value |-> 900],
      [text |-> "95", value |-> 950] }

HeartRateReadings ==
    { [text |-> "100", value |-> 1000], [text |-> "101", value |-> 1010],
      [text |-> "110", value |-> 1100] }

\* the vitals text of the form "BP: s/d, HR: h"
BPHRText(s, d, h) == "BP: " \o s \o "/" \o d \o ", HR: " \o h

\* records with such a text, with and without structured vitals beside it
BPHRPatients ==
    { Record(p, BPHRText(s.text, d.text, h.text), "") :
        p \in {<<>>, [systolic_bp |-> Some(1500), heart_rate |-> Some(1200)]},
        s \in SystolicReadings, d \in DiastolicReadings, h \in HeartRateReadings }

BPHRBatches ==
    { <<Candidate(Some("Hypertension"), Some(900), Some("BP elevated")),
        Candidate(Some("Tachycardia"), Some(800), Some("palpitations"))>>,
      <<Candidate(Some("Tachycardia"), Some(800), Some("palpitations")),
        Candidate(Some("Hypertension"), Some(900), Some("BP elevated"))>> }

\* every list of at most n elements of S
SeqsUpTo(S, n) == UNION { [1..k -> S] : k \in 0..n }

InitCall(pd, ds) ==
    /\ patient_data = pd
    /\ diagnoses = ds
    /\ idx = 1
    /\ validated_diagnoses = <<>>
    /\ validation_result = NoVerdict
    /\ vitals = <<>>
    /\ labs = <<>>
    /\ pc = "loop"
    /\ log = <<>>
    /\ self = 1
    /\ clinical_rules = Construct(<<>>)
    /\ earlier = <<>>
    /\ calls = <<>>
    /\ main = NoRun

Init ==
    \/ \E pd \in RulePatients, d \in RuleCandidates : InitCall(pd, <<d>>)
    \/ \E pd \in BatchPatients, ds \in SeqsUpTo(BatchCandidates, MaxDiag) :
           InitCall(pd, ds)
    \/ \E pd \in BatchPatients, d \in ConfidenceCandidates : InitCall(pd, <<d>>)
    \/ \E pd \in BPHRPatients, ds \in BPHRBatches : InitCall(pd, ds)

Spec == Init /\ [][Next]_vars

\* the same call repeated: batches of at most MaxRepeatDiag candidates
MaxRepeatDiag == 2

InitTwice ==
    \E pd \in BatchPatients, ds \in SeqsUpTo(BatchCandidates, MaxRepeatDiag) :
        InitCall(pd, ds)

NextTwice ==
    EmitValidated \/ EmitFlagged \/ DropCritical \/ RaiseKeyError \/ Return \/ CallAgain

SpecTwice == InitTwice /\ [][NextTwice]_vars

(***************************************************************************)
(* Several calls on one shared instance.  Every call has a frame of its    *)
(* own in calls; an iteration takes two steps, the verdict (line 35) and   *)
(* the branch on it (lines 37-59), and the steps of the calls interleave.  *)
(***************************************************************************)
MaxThreads == 2

\* the frame of a call that has just been entered
Frame(pd, ds) ==
    [patient_data |-> pd, diagnoses |-> ds, idx |-> 1,
     validated_diagnoses |-> NewList(<<>>), validation_result |-> NoVerdict,
     pc |-> "loop"]

\* mutant: the verdict is kept in a field of the shared instance
VerdictCell_Shared(t) == 1

\* validation_result is a local: the frame of call t holds the verdict of call t
VerdictCell(t) == t

\* the candidate call t is at, and what the loop body reads from it
ThreadDiagnosis(t) == calls[t].diagnoses[calls[t].idx]

ThreadConfidence(t) == DictGetDefault(ThreadDiagnosis(t), "confidence", 0)

ThreadEvidence(t) == DictGetDefault(ThreadDiagnosis(t), "evidence", "")

ThreadVerdict(t) == calls[VerdictCell(t)].validation_result

\* lines 30-35: the verdict of the next candidate is computed and stored
ThreadValidate(t) ==
    /\ calls[t].pc = "loop"
    /\ calls[t].idx <= Len(calls[t].diagnoses)
    /\ calls' = [calls EXCEPT
           ![VerdictCell(t)].validation_result =
               _validate_single_diagnosis(
                   lower(DictGetDefault(ThreadDiagnosis(t), "name", "")),
                   calls[t].patient_data, ThreadEvidence(t)),
           ![t].pc = "branch"]

ThreadEmitValidated(t) ==
    /\ calls[t].pc = "branch"
    /\ TakesValidBranch(ThreadVerdict(t))
    /\ ~NameRaises(ThreadDiagnosis(t))
    /\ calls' = [calls EXCEPT
           ![t].validated_diagnoses = ListAppend(@,
               ValidatedRecord(ThreadDiagnosis(t), ThreadConfidence(t),
                               ThreadEvidence(t), ThreadVerdict(t))),
           ![t].idx = @ + 1,
           ![t].pc = "loop"]

ThreadEmitFlagged(t) ==
    /\ calls[t].pc = "branch"
    /\ ~TakesValidBranch(ThreadVerdict(t))
    /\ ~TakesDropBranch(ThreadVerdict(t))
    /\ ~NameRaises(ThreadDiagnosis(t))
    /\ calls' = [calls EXCEPT
           ![t].validated_diagnoses = ListAppend(@,
               FlaggedRecord(ThreadDiagnosis(t), ThreadConfidence(t),
                             ThreadEvidence(t), ThreadVerdict(t))),
           ![t].idx = @ + 1,
           ![t].pc = "loop"]

ThreadDropCritical(t) ==
    /\ calls[t].pc = "branch"
    /\ ~TakesValidBranch(ThreadVerdict(t))
    /\ TakesDropBranch(ThreadVerdict(t))
    /\ calls' = [calls EXCEPT ![t].idx = @ + 1, ![t].pc = "loop"]

ThreadRaiseKeyError(t) ==
    /\ calls[t].pc = "branch"
    /\ TakesValidBranch(ThreadVerdict(t)) \/ ~TakesDropBranch(ThreadVerdict(t))
    /\ NameRaises(ThreadDiagnosis(t))
    /\ calls' = [calls EXCEPT ![t].pc = "raised"]

ThreadReturn(t) ==
    /\ calls[t].pc = "loop"
    /\ calls[t].idx > Len(calls[t].diagnoses)
    /\ calls' = [calls EXCEPT ![t].pc = "done"]

\* nothing outside the frames is written by a step of a call
shared_frame == <<patient_data, diagnoses, idx, validated_diagnoses,
                  validation_result, vitals, labs, pc, log, self,
                  clinical_rules, earlier, main>>

SharedValidate == \E t \in DOMAIN calls : ThreadValidate(t) /\ UNCHANGED shared_frame

SharedEmitValidated ==
    \E t \in DOMAIN calls : ThreadEmitValidated(t) /\ UNCHANGED shared_frame

SharedEmitFlagged ==
    \E t \in DOMAIN calls : ThreadEmitFlagged(t) /\ UNCHANGED shared_frame

SharedDropCritical ==
    \E t \in DOMAIN calls : ThreadDropCritical(t) /\ UNCHANGED shared_frame

SharedRaiseKeyError ==
    \E t \in DOMAIN calls : ThreadRaiseKeyError(t) /\ UNCHANGED shared_frame

SharedReturn == \E t \in DOMAIN calls : ThreadReturn(t) /\ UNCHANGED shared_frame

\* the arguments of the calls that meet on the instance
SharedPatients ==
    { Record(<<>>, "BP: 150/95, HR: 110", ""),
      Record(<<>>, "BP: 118/76", "Glucose: 130") }

SharedDiagnoses ==
    { <<Candidate(Some("Hypertension"), Some(900), Some("BP elevated")),
        Candidate(Some("Tachycardia"), None, Some("palpitations"))>>,
      <<Candidate(Some("Migraine"), Some(800), Some("headache")),
        Candidate(None, Some(500), Some("unnamed"))>>,
      <<Candidate(Some("Type 2 Diabetes"), Some(1000), Some("polyuria"))>> }

\* one instance, constructed once and handed to every session; no call of
\* the single-call machine is running
InitShared ==
    /\ patient_data = <<>>
    /\ diagnoses = <<>>
    /\ idx = 1
    /\ validated_diagnoses = <<>>
    /\ validation_result = NoVerdict
    /\ vitals = <<>>
    /\ labs = <<>>
    /\ pc = "idle"
    /\ log = <<>>
    /\ self = 1
    /\ clinical_rules = Construct(<<>>)
    /\ earlier = <<>>
    /\ calls \in [1..MaxThreads ->
                    { Frame(pd, ds) : pd \in SharedPatients, ds \in SharedDiagnoses }]
    /\ main = NoRun

NextShared ==
    \/ SharedValidate
    \/ SharedEmitValidated
    \/ SharedEmitFlagged
    \/ SharedDropCritical
    \/ SharedRaiseKeyError
    \/ SharedReturn

SpecShared == InitShared /\ [][NextShared]_vars

\* validate_diagnoses run alone, from candidate i on with the list acc built
\* so far: how the call ends
RECURSIVE RunAloneFrom(_, _, _, _)
RunAloneFrom(pd, ds, i, acc) ==
    IF i > Len(ds) THEN [pc |-> "done", result |-> acc]
    ELSE LET d  == ds[i]
             c  == DictGetDefault(d, "confidence", 0)
             e  == DictGetDefault(d, "evidence", "")
             vr == _validate_single_diagnosis(
                       lower(DictGetDefault(d, "name", "")), pd, e)
         IN IF TakesValidBranch(vr)
            THEN IF NameRaises(d) THEN [pc |-> "raised", result |-> <<>>]
                 ELSE RunAloneFrom(pd, ds, i + 1,
                                   ListAppend(acc, ValidatedRecord(d, c, e, vr)))
            ELSE IF TakesDropBranch(vr) THEN RunAloneFrom(pd, ds, i + 1, acc)
            ELSE IF NameRaises(d) THEN [pc |-> "raised", result |-> <<>>]
                 ELSE RunAloneFrom(pd, ds, i + 1,
                                   ListAppend(acc, FlaggedRecord(d, c, e, vr)))

RunAlone(pd, ds) == RunAloneFrom(pd, ds, 1, NewList(<<>>))

(***************************************************************************)
(* The extractor on its own: _extract_vitals, then _extract_labs, as the    *)
(* first two statements of _validate_single_diagnosis run them.             *)
(***************************************************************************)
\* a str among the values of a dictionary
Str(s) == <<"str", s>>

\* isinstance(m, (int, float)) of a value that is not None
IsNumber(m) == Len(m) = 1

\* vitals = self._extract_vitals(patient_data)
ExtractVitals ==
    /\ pc = "extract"
    /\ vitals' = _extract_vitals(patient_data)
    /\ pc' = "vitals"
    /\ UNCHANGED <<patient_data, diagnoses, idx, validated_diagnoses,
                   validation_result, labs, log>>
    /\ UNCHANGED instance_vars

\* labs = self._extract_labs(patient_data)
ExtractLabs ==
    /\ pc = "vitals"
    /\ labs' = _extract_labs(patient_data)
    /\ pc' = "extracted"
    /\ UNCHANGED <<patient_data, diagnoses, idx, validated_diagnoses,
                   validation_result, vitals, log>>
    /\ UNCHANGED instance_vars

\* patient objects: attributes present or absent, numbers, None and a str
ExtractStructured ==
    { <<>>,
      [systolic_bp |-> Some(1500), heart_rate |-> None, resp_rate |-> Some(220)],
      [respiratory_rate |-> Some(220), temperature |-> Some(370), spo2 |-> Some(980)],
      [systolic_bp |-> Str("140"), diastolic_bp |-> Some(900)],
      [systolic_bp |-> Some(1300), diastolic_bp |-> Some(850), heart_rate |-> Some(800),
       resp_rate |-> Some(180), temperature |-> Some(366), spo2 |-> Some(990)] }

ExtractVitalsTexts ==
    { "", "BP: 150/95, HR: 110", "bp 118/76 hr 72", "HR: 100.5", "BP: 139.5/89",
      "BP 139/89.5", "Temp: 98.6 SpO2: 97", "TEMP 37 spo2:97.5", "vitals stable" }

ExtractLabsTexts == { "", "Glucose: 130, hemoglobin 11.9", "no labs drawn" }

ExtractPatients ==
    { Record(p, t, l) :
        p \in ExtractStructured, t \in ExtractVitalsTexts, l \in ExtractLabsTexts }

InitExtract ==
    /\ patient_data \in ExtractPatients
    /\ diagnoses = <<>>
    /\ idx = 1
    /\ validated_diagnoses = <<>>
    /\ validation_result = NoVerdict
    /\ vitals = <<>>
    /\ labs = <<>>
    /\ pc = "extract"
    /\ log = <<>>
    /\ self = 1
    /\ clinical_rules = Construct(<<>>)
    /\ earlier = <<>>
    /\ calls = <<>>
    /\ main = NoRun

NextExtract == ExtractVitals \/ ExtractLabs

SpecExtract == InitExtract /\ [][NextExtract]_vars

(***************************************************************************)
(* The application.  A click on the button makes main check the mandatory  *)
(* fields and run the stages one after the other; the answers of the        *)
(* extractor and of the oracle are inputs.  Agent names are written without *)
(* the pictograph that precedes some of them in the source.                 *)
(***************************************************************************)
\* the variables of the rule engine, which the other stages never touch
engine_vars == <<patient_data, diagnoses, idx, validated_diagnoses,
                 validation_result, vitals, labs, pc, log, self,
                 clinical_rules, earlier, calls>>

\* s.strip() is empty
IsBlank(s) == \A i \in 1..Len(s) : SubSeq(s, i, i) \in {" ", "\n", "\t"}

\* validate_mandatory_fields: (is_valid, missing_fields); age is in years
validate_mandatory_fields(inputs) ==
    LET vital_fields == <<"systolic_bp", "diastolic_bp", "heart_rate",
                          "resp_rate", "temperature", "spo2">>
        vital_names == <<"Systolic BP", "Diastolic BP", "Heart Rate",
                         "Respiratory Rate", "Temperature", "SpO2">>
        absent == SelectSeq(<<1, 2, 3, 4, 5, 6>>,
                            LAMBDA i : DictGet(inputs, vital_fields[i]) = None)
        missing_fields ==
            (IF ~(inputs.pdf_file # None \/ inputs.url # "")
             THEN <<"Document (PDF or URL)">> ELSE <<>>)
            \o (IF inputs.text = "" THEN <<"Clinical Notes / HPI / Summary">> ELSE <<>>)
            \o (IF inputs.age = None \/ Num(inputs.age) <= 0 THEN <<"Age">> ELSE <<>>)
            \o (IF inputs.sex = "Select..." \/ inputs.sex = "" THEN <<"Sex">> ELSE <<>>)
            \o [k \in 1..Len(absent) |-> vital_names[absent[k]]]
            \o (IF inputs.meds = "" THEN <<"Current Medications">> ELSE <<>>)
            \o (IF inputs.imaging = "" THEN <<"Imaging Studies">> ELSE <<>>)
    IN  [is_valid |-> Len(missing_fields) = 0, missing_fields |-> missing_fields]

\* merge_data_sources, one text field: the extracted text is appended under
\* a label
MergedText(manual, extracted, source_label) ==
    IF extracted # "" /\ ~IsBlank(extracted)
    THEN IF manual # "" /\ ~IsBlank(manual)
         THEN manual \o "\n\n--- FROM " \o source_label \o " ---\n" \o extracted
         ELSE "--- FROM " \o source_label \o " ---\n" \o extracted
    ELSE manual

\* merge_data_sources, the demographics: an extracted age or sex wins
MergedDemographics(manual, extracted) ==
    LET a == IF TruthyNum(DictGet(extracted, "age"))
             THEN [manual EXCEPT !.age = extracted.age] ELSE manual
    IN  IF DictGetDefault(extracted, "sex", "") # ""
        THEN [a EXCEPT !.sex = extracted.sex] ELSE a

merge_data_sources(manual_data, extracted_data, source_label) ==
    IF ~Truthy(extracted_data) THEN manual_data
    ELSE [k \in DOMAIN manual_data |->
            IF k = "demographics"
            THEN MergedDemographics(manual_data[k],
                                    DictGetDefault(extracted_data, k, <<>>))
            ELSE MergedText(manual_data[k], DictGetDefault(extracted_data, k, ""),
                            source_label)]

\* aggregate_inputs: the manual entries, then the voice note, the PDF and the
\* URL; an extraction that raises is reported and leaves the data as it is
aggregate_inputs(inputs, pdf_out, url_out) ==
    LET data == [demographics |-> [age |-> inputs.age, sex |-> inputs.sex],
                 free_text |-> inputs.text,
                 vitals |-> inputs.vitals,
                 medications |-> inputs.meds,
                 imaging |-> inputs.imaging,
                 labs |-> ""]
        voice == inputs.voice_transcription # ""
        data1 == IF voice
                 THEN merge_data_sources(data,
                          [free_text |-> inputs.voice_transcription],
                          "VOICE TRANSCRIPTION")
                 ELSE data
        pdf == inputs.pdf_file # None /\ ~pdf_out.raised
        data2 == IF pdf THEN merge_data_sources(data1, pdf_out.extracted, "PDF")
                 ELSE data1
        url == inputs.url # "" /\ ~url_out.raised
        data3 == IF url THEN merge_data_sources(data2, url_out.extracted, "URL")
                 ELSE data2
    IN  [data |-> data3,
         events |-> (IF voice THEN <<"Voice Processing">> ELSE <<>>)
                    \o (IF pdf THEN <<"LangChain Extract">> ELSE <<>>)
                    \o (IF url THEN <<"URL Extract">> ELSE <<>>)]

\* IngestionAgent.run: the structured record; the sex is a str among the
\* attributes of the patient
IngestionAgent_run(raw_input) ==
    [patient |-> [age |-> raw_input.demographics.age,
                  sex |-> Str(raw_input.demographics.sex)],
     symptom_notes |-> raw_input.free_text,
     vitals |-> raw_input.vitals,
     labs |-> raw_input.labs,
     medications |-> raw_input.medications,
     imaging |-> raw_input.imaging]

\* mutant: the risk stage is handed the oracle's list
RiskDiagnoses_Ranked(m) == m.dx_ranked

\* the list main hands to risk.run
RiskDiagnoses(m) == m.dx_validated

\* the list main hands to advisory.run
AdvisoryDiagnoses(m) == m.dx_validated

\* render_agents_timeline: the diagnoses are rendered in the card of the
\* Analysis event, when the list handed in is not empty
RenderedDiagnoses(events, dx) ==
    IF Len(events) = 0 THEN <<>>
    ELSE IF (\E i \in DOMAIN events : events[i] = "Analysis") /\ Len(dx) > 0
         THEN dx ELSE <<>>

\* main's locals after the click
Clicked(inputs) ==
    [pc |-> "button", inputs |-> inputs, session |-> <<>>, patient |-> <<>>,
     structured |-> <<>>, dx_ranked |-> <<>>, dx_validated |-> <<>>,
     flags |-> <<>>, advice |-> <<>>, rendered |-> <<>>,
     started |-> <<>>, received |-> <<>>]

\* a stage starts: history of the stages and of the lists they are handed
Start(m, stage) == [m EXCEPT !.started = Append(@, stage)]

Hand(m, stage, list) ==
    [m EXCEPT !.received = Append(@, [stage |-> stage, diagnoses |-> list])]

\* if not is_valid: ... return
RejectInputs ==
    /\ main.pc = "button"
    /\ ~validate_mandatory_fields(main.inputs).is_valid
    /\ main' = [main EXCEPT !.pc = "returned"]
    /\ UNCHANGED engine_vars

\* session = {"events": []}
AcceptInputs ==
    /\ main.pc = "button"
    /\ validate_mandatory_fields(main.inputs).is_valid
    /\ main' = [main EXCEPT !.pc = "aggregate", !.session = <<>>]
    /\ UNCHANGED engine_vars

\* the longest list the oracle answers with
MaxOracleDiag == 2

\* what an extraction ends with: an exception, an error report or a report
ExtractorOutcomes ==
    { [raised |-> TRUE, extracted |-> <<>>],
      [raised |-> FALSE, extracted |-> [error |-> "no content"]],
      [raised |-> FALSE, extracted |-> [labs |-> "Hemoglobin: 11.9, Glucose: 130"]],
      [raised |-> FALSE,
       extracted |-> [demographics |-> [age |-> Some(60)],
                      vitals |-> "BP 118/76", labs |-> " "]] }

\* patient = aggregate_inputs(inputs, extractor, session)
AggregateInputs ==
    /\ main.pc = "aggregate"
    /\ \E pdf_out \in ExtractorOutcomes, url_out \in ExtractorOutcomes :
          LET a == aggregate_inputs(main.inputs, pdf_out, url_out)
          IN  main' = [Start(main, "aggregate_inputs") EXCEPT
                          !.patient = a.data,
                          !.session = main.session \o a.events,
                          !.pc = "ingest"]
    /\ UNCHANGED engine_vars

\* structured = ingest.run(patient, session)
IngestRun ==
    /\ main.pc = "ingest"
    /\ main' = [Start(main, "ingest") EXCEPT
                   !.structured = IngestionAgent_run(main.patient),
                   !.session = Append(main.session, "Ingestion"),
                   !.pc = "analysis"]
    /\ UNCHANGED engine_vars

\* analysis.run is entered: the prompt is sent to the oracle
AnalysisRequest ==
    /\ main.pc = "analysis"
    /\ main' = [Start(main, "analysis") EXCEPT !.pc = "awaiting_analysis"]
    /\ UNCHANGED engine_vars

\* the candidates of the oracle
OracleCandidates ==
    { Candidate(Some("Hypertension"), Some(900), Some("BP elevated")),
      Candidate(Some("Tachycardia"), Some(800), Some("palpitations")),
      Candidate(Some("Iron Deficiency Anemia"), Some(700), Some("fatigue")),
      Candidate(None, Some(500), Some("unnamed")) }

\* the answers of generate_json: an error report or a list of candidates
AnalysisResponses ==
    { [error |-> "timeout"] }
      \cup { [diagnoses |-> ds] : ds \in SeqsUpTo(OracleCandidates, MaxOracleDiag) }

\* dx_ranked = analysis.run(structured, session), the oracle has answered
AnalysisResponse ==
    /\ main.pc = "awaiting_analysis"
    /\ \E response \in AnalysisResponses :
          main' = [main EXCEPT
                      !.dx_ranked = DictGetDefault(response, "diagnoses", <<>>),
                      !.session = Append(main.session, "Analysis"),
                      !.pc = "rules"]
    /\ UNCHANGED engine_vars

\* clinical_rules.validate_diagnoses(structured, dx_ranked) is entered
RulesCall ==
    /\ main.pc = "rules"
    /\ main' = [Hand(Start(main, "clinical_rules"), "clinical_rules", main.dx_ranked)
                   EXCEPT !.pc = "in_rules"]
    /\ patient_data' = main.structured
    /\ diagnoses' = main.dx_ranked
    /\ idx' = 1
    /\ validated_diagnoses' = NewList(validated_diagnoses)
    /\ validation_result' = NoVerdict
    /\ vitals' = <<>>
    /\ labs' = <<>>
    /\ pc' = "loop"
    /\ log' = <<>>
    /\ UNCHANGED <<self, clinical_rules, earlier, calls>>

\* dx_validated = the list the call returned
RulesReturn ==
    /\ main.pc = "in_rules"
    /\ pc = "done"
    /\ main' = [main EXCEPT !.dx_validated = validated_diagnoses, !.pc = "risk"]
    /\ UNCHANGED engine_vars

\* the KeyError of the call leaves main: the run ends there
RulesRaise ==
    /\ main.pc = "in_rules"
    /\ pc = "raised"
    /\ main' = [main EXCEPT !.pc = "raised"]
    /\ UNCHANGED engine_vars

\* flags = risk.run(structured, dx_validated, session)
RiskRun ==
    /\ main.pc = "risk"
    /\ \E response \in { [error |-> "timeout"], [flags |-> <<"Hypertensive urgency">>] } :
          main' = [Hand(Start(main, "risk"), "risk", RiskDiagnoses(main)) EXCEPT
                      !.flags = DictGetDefault(response, "flags", <<>>),
                      !.session = Append(main.session, "Risk"),
                      !.pc = "advisory"]
    /\ UNCHANGED engine_vars

\* advice = advisory.run(structured, dx_validated, flags, session)
AdvisoryRun ==
    /\ main.pc = "advisory"
    /\ \E response \in { [error |-> "timeout"], [summary |-> "follow up"] } :
          main' = [Hand(Start(main, "advisory"), "advisory", AdvisoryDiagnoses(main))
                      EXCEPT
                      !.advice = response,
                      !.session = Append(main.session, "Advisory"),
                      !.pc = "render"]
    /\ UNCHANGED engine_vars

\* render_agents_timeline(session["events"], dx_validated, flags, advice, structured)
Render ==
    /\ main.pc = "render"
    /\ main' = [Hand(Start(main, "render"), "render",
                     RenderedDiagnoses(main.session, main.dx_validated)) EXCEPT
                   !.rendered = RenderedDiagnoses(main.session, main.dx_validated),
                   !.pc = "returned"]
    /\ UNCHANGED engine_vars

\* the vitals line the sidebar writes from its six fields
SidebarVitals(s, d, h) ==
    "BP " \o s \o "/" \o d \o ", HR " \o h \o ", Temp 37.0C, RR 18, SpO2 98%"

\* what the sidebar returns when every field is filled
FilledInputs ==
    { [pdf_file |-> doc.pdf_file, url |-> doc.url,
       voice_transcription |-> doc.voice, text |-> "headache for two days",
       age |-> Some(54), sex |-> "Female",
       vitals |-> SidebarVitals(v.s.text, v.d.text, v.h.text),
       systolic_bp |-> Some(v.s.value), diastolic_bp |-> Some(v.d.value),
       heart_rate |-> Some(v.h.value), resp_rate |-> Some(180),
       temperature |-> Some(370), spo2 |-> Some(980),
       meds |-> "None", imaging |-> "None"] :
        doc \in { [pdf_file |-> Some("report.pdf"), url |-> "", voice |-> ""],
                  [pdf_file |-> None, url |-> "http://lab/report", voice |-> "dizzy"] },
        v \in { [s |-> [text |-> "150", value |-> 1500],
                 d |-> [text |-> "95", value |-> 950],
                 h |-> [text |-> "110", value |-> 1100]],
                [s |-> [text |-> "118", value |-> 1180],
                 d |-> [text |-> "76", value |-> 760],
                 h |-> [text |-> "72", value |-> 720]] } }

\* the same with one mandatory field left out
UnfilledInputs ==
    UNION { { [i EXCEPT !.pdf_file = None, !.url = ""],
              [i EXCEPT !.text = ""],
              [i EXCEPT !.age = None],
              [i EXCEPT !.age = Some(0)],
              [i EXCEPT !.sex = "Select..."],
              [i EXCEPT !.heart_rate = None, !.vitals = ""],
              [i EXCEPT !.meds = ""],
              [i EXCEPT !.imaging = ""] } : i \in FilledInputs }

InitPipeline ==
    /\ patient_data = <<>>
    /\ diagnoses = <<>>
    /\ idx = 1
    /\ validated_diagnoses = <<>>
    /\ validation_result = NoVerdict
    /\ vitals = <<>>
    /\ labs = <<>>
    /\ pc = "idle"
    /\ log = <<>>
    /\ self = 1
    /\ clinical_rules = Construct(<<>>)
    /\ earlier = <<>>
    /\ calls = <<>>
    /\ \E inputs \in FilledInputs \cup UnfilledInputs : main = Clicked(inputs)

NextPipeline ==
    \/ RejectInputs
    \/ AcceptInputs
    \/ AggregateInputs
    \/ IngestRun
    \/ AnalysisRequest
    \/ AnalysisResponse
    \/ RulesCall
    \/ EmitValidated
    \/ EmitFlagged
    \/ DropCritical
    \/ RaiseKeyError
    \/ Return
    \/ RulesReturn
    \/ RulesRaise
    \/ RiskRun
    \/ AdvisoryRun
    \/ Render

SpecPipeline == InitPipeline /\ [][NextPipeline]_vars

(***************************************************************************)
(* Properties.  They read the history: candidate j of the call is           *)
(* diagnoses[j], its verdict log[j].verdict, its fate log[j].fate and,      *)
(* when it was emitted, the position log[j].out of its output record.       *)
(***************************************************************************)
Processed == 1..Len(log)

Emitted(j) == log[j].out # 0

OutputOf(j) == validated_diagnoses[log[j].out]

HasName(j) == "name" \in DOMAIN diagnoses[j]

HasConfidence(j) == "confidence" \in DOMAIN diagnoses[j]

CriticalInvalid(v) == ~v.is_valid /\ v.severity = "CRITICAL"

\* the verdict's three graded fields
Grade(v) == <<v.is_valid, v.severity, v.max_confidence>>

\* the rule candidate j is judged by: the name is lower-cased before the dispatch
RuleAt(j) == RuleOf(lower(DictGetDefault(diagnoses[j], "name", "")))

\* a measurement of the extracted maps is present / has a value
Has(m, key) == key \in DOMAIN m

\* C1: every candidate processed without an exception is either emitted as
\* exactly one output record, VALIDATED or FLAGGED, or dropped; it is dropped
\* if and only if its verdict is invalid with severity CRITICAL; no output
\* record belongs to two candidates or to none; and the returned list is as
\* long as the candidate list less its CRITICAL-invalid candidates.
C1_EmittedOnceOrDropped ==
    /\ \A j \in Processed : log[j].fate # "RAISED" =>
          /\ (~Emitted(j)) <=> CriticalInvalid(log[j].verdict)
          /\ Emitted(j) =>
                /\ log[j].out \in 1..Len(validated_diagnoses)
                /\ OutputOf(j).validation_status \in {"VALIDATED", "FLAGGED"}
                /\ OutputOf(j).validation_status = log[j].fate
    /\ \A j, k \in Processed : Emitted(j) /\ Emitted(k) /\ j # k => log[j].out # log[k].out
    /\ \A o \in 1..Len(validated_diagnoses) : \E j \in Processed : log[j].out = o
    /\ pc = "done" =>
          Len(validated_diagnoses) = Len(diagnoses)
              - Cardinality({j \in Processed : CriticalInvalid(log[j].verdict)})

\* a batch of three candidates, one of them refuted, returned two records
C1_Witness ==
    /\ pc = "done"
    /\ Len(diagnoses) = 3
    /\ Len(validated_diagnoses) = 2
    /\ \E j \in Processed : log[j].fate = "DROPPED"

\* C2: the output keeps the order of the input: the records of two emitted
\* candidates stand in the order of the candidates, and the record at the
\* position of candidate j carries the name and evidence of candidate j.
C2_OrderPreserving ==
    /\ \A j, k \in Processed :
          Emitted(j) /\ Emitted(k) /\ j < k => log[j].out < log[k].out
    /\ \A j \in Processed : Emitted(j) =>
          /\ OutputOf(j).name = diagnoses[j]["name"]
          /\ OutputOf(j).evidence = DictGetDefault(diagnoses[j], "evidence", "")

\* two candidates of different names emitted around a dropped one
C2_Witness ==
    /\ pc = "done"
    /\ \E i, j, k \in Processed :
          /\ i < j /\ j < k
          /\ Emitted(i) /\ ~Emitted(j) /\ Emitted(k)
          /\ diagnoses[i]["name"] # diagnoses[k]["name"]

\* C3 (as claimed): a candidate without the name key never makes
\* validate_diagnoses fail; it is handled as a candidate of empty name, which
\* no rule matches, so it is emitted VALIDATED, and the batch goes on.
C3_MissingNameTolerated ==
    /\ pc # "raised"
    /\ \A j \in Processed : ~HasName(j) => log[j].fate = "VALIDATED"

\* C4: a candidate without the confidence key (and with a name) has
\* confidence 0: emitted VALIDATED with confidence 0 when its verdict is
\* valid, FLAGGED with confidence 0.1 when invalid and not CRITICAL, dropped
\* when CRITICAL.
C4_MissingConfidenceIsZero ==
    \A j \in Processed : ~HasConfidence(j) /\ HasName(j) =>
        LET v == log[j].verdict
        IN  /\ log[j].fate # "RAISED"
            /\ v.is_valid =>
                  /\ log[j].fate = "VALIDATED"
                  /\ OutputOf(j).validation_status = "VALIDATED"
                  /\ OutputOf(j).confidence = 0
            /\ ~v.is_valid /\ v.severity # "CRITICAL" =>
                  /\ log[j].fate = "FLAGGED"
                  /\ OutputOf(j).validation_status = "FLAGGED"
                  /\ OutputOf(j).confidence = 100
            /\ CriticalInvalid(v) => log[j].fate = "DROPPED" /\ ~Emitted(j)

\* a candidate without confidence was flagged with confidence 0.1
C4_Witness ==
    \E j \in Processed :
        /\ ~HasConfidence(j) /\ HasName(j)
        /\ log[j].fate = "FLAGGED"
        /\ OutputOf(j).confidence = 100

\* the blood pressure of the extracted vitals crosses a threshold
BPCrosses ==
    \/ Has(vitals, "systolic_bp") /\ Num(vitals["systolic_bp"]) >= 1400
    \/ Has(vitals, "diastolic_bp") /\ Num(vitals["diastolic_bp"]) >= 900

BothBP == Has(vitals, "systolic_bp") /\ Has(vitals, "diastolic_bp")

\* C5 (as claimed): whenever systolic_bp >= 140 or diastolic_bp >= 90, also
\* when only one of the two is present, a hypertension diagnosis is valid
\* with severity INFO.
C5_ValidWheneverOneCrosses ==
    \A j \in Processed : RuleAt(j) = "hypertension" /\ BPCrosses =>
        log[j].verdict.is_valid /\ log[j].verdict.severity = "INFO"

\* C5 (amended): when both are present and systolic_bp >= 140 or
\* diastolic_bp >= 90 the hypertension verdict is valid with severity INFO;
\* when only one is present the verdict is the missing-measurement WARNING,
\* whatever the value of the one present.
C5_ValidWhenBothPresentAndOneCrosses ==
    \A j \in Processed : RuleAt(j) = "hypertension" =>
        /\ BothBP /\ BPCrosses =>
              log[j].verdict.is_valid /\ log[j].verdict.severity = "INFO"
        /\ ~BothBP => Grade(log[j].verdict) = <<FALSE, "WARNING", 500>>

\* hypertension validated on the diastolic value alone (systolic below 140)
C5_Witness ==
    \E j \in Processed :
        /\ RuleAt(j) = "hypertension"
        /\ BothBP
        /\ Num(vitals["systolic_bp"]) < 1400
        /\ Num(vitals["diastolic_bp"]) >= 900
        /\ log[j].verdict.is_valid

\* C6: with both blood-pressure values present, below 140 and below 90
\* (139/89 among them), the hypertension verdict is invalid, CRITICAL, with
\* max_confidence 0.0; at systolic exactly 140 or diastolic exactly 90 it is
\* valid, whatever the other value.
C6_HypertensionBoundary ==
    \A j \in Processed : RuleAt(j) = "hypertension" /\ BothBP =>
        LET sys == Num(vitals["systolic_bp"])
            dia == Num(vitals["diastolic_bp"])
        IN  /\ sys < 1400 /\ dia < 900 =>
                  Grade(log[j].verdict) = <<FALSE, "CRITICAL", 0>>
            /\ sys = 1400 \/ dia = 900 => log[j].verdict.is_valid

\* hypertension refuted at 139/89
C6_Witness ==
    \E j \in Processed :
        /\ RuleAt(j) = "hypertension"
        /\ BothBP
        /\ Num(vitals["systolic_bp"]) = 1390
        /\ Num(vitals["diastolic_bp"]) = 890
        /\ Grade(log[j].verdict) = <<FALSE, "CRITICAL", 0>>

\* the measurements a rule cannot do without are not all there
RequiredMissing(rule) ==
    CASE rule = "hypertension"   -> ~Has(vitals, "systolic_bp") \/ ~Has(vitals, "diastolic_bp")
      [] rule = "hypotension"    -> ~Has(vitals, "systolic_bp")
      [] rule = "tachycardia"    -> ~Has(vitals, "heart_rate")
      [] rule = "bradycardia"    -> ~Has(vitals, "heart_rate")
      [] rule = "diabetes"       -> ~Has(labs, "glucose") /\ ~Has(labs, "hba1c")
      [] rule = "anemia"         -> ~Has(labs, "hemoglobin")
      [] rule = "kidney_disease" -> ~Has(labs, "creatinine")
      [] OTHER                   -> FALSE

\* C7: for every catalog rule the verdict is invalid, WARNING, max_confidence
\* 0.5 exactly when a required measurement is absent (for diabetes: when
\* glucose and hba1c are both absent); no other case gives WARNING.
C7_WarningIffMeasurementMissing ==
    \A j \in Processed :
        /\ RequiredMissing(RuleAt(j)) =>
              Grade(log[j].verdict) = <<FALSE, "WARNING", 500>>
        /\ log[j].verdict.severity = "WARNING" => RequiredMissing(RuleAt(j))

\* hypertension with the systolic value alone, at or above 140: WARNING
C7_Witness ==
    \E j \in Processed :
        /\ RuleAt(j) = "hypertension"
        /\ Has(vitals, "systolic_bp") /\ ~Has(vitals, "diastolic_bp")
        /\ Num(vitals["systolic_bp"]) >= 1400
        /\ Grade(log[j].verdict) = <<FALSE, "WARNING", 500>>

\* the measurement a strict-threshold rule reads
StrictKey(rule) ==
    CASE rule = "hypotension"    -> "systolic_bp"
      [] rule = "tachycardia"    -> "heart_rate"
      [] rule = "bradycardia"    -> "heart_rate"
      [] rule = "anemia"         -> "hemoglobin"
      [] rule = "kidney_disease" -> "creatinine"

\* the strict comparison of the rule, on a value in tenths
StrictHolds(rule, x) ==
    CASE rule = "hypotension"    -> x < 900
      [] rule = "tachycardia"    -> x > 1000
      [] rule = "bradycardia"    -> x < 600
      [] rule = "anemia"         -> x < 120
      [] rule = "kidney_disease" -> x > 13

StrictRules == {"hypotension", "tachycardia", "bradycardia", "anemia", "kidney_disease"}

\* the extracted measurement of that name, from the vitals or the labs
Measured(key) == IF Has(vitals, key) THEN vitals[key] ELSE DictGet(labs, key)

\* C8: for hypotension (< 90), tachycardia (> 100), bradycardia (< 60),
\* anemia (< 12) and kidney/renal (> 1.3), with the measurement present, the
\* verdict is valid, INFO, 1.0 exactly when the strict comparison holds, and
\* invalid, CRITICAL, 0.0 otherwise; a value equal to the limit is CRITICAL.
C8_StrictThresholds ==
    \A j \in Processed :
        LET rule == RuleAt(j)
        IN  rule \in StrictRules /\ Measured(StrictKey(rule)) # None =>
               Grade(log[j].verdict) =
                  IF StrictHolds(rule, Num(Measured(StrictKey(rule))))
                  THEN <<TRUE, "INFO", 1000>>
                  ELSE <<FALSE, "CRITICAL", 0>>

\* anemia refuted at hemoglobin exactly 12.0
C8_Witness ==
    \E j \in Processed :
        /\ RuleAt(j) = "anemia"
        /\ Has(labs, "hemoglobin")
        /\ Num(labs["hemoglobin"]) = 120
        /\ Grade(log[j].verdict) = <<FALSE, "CRITICAL", 0>>

GlucoseCrosses == Has(labs, "glucose") /\ Num(labs["glucose"]) >= 1260

HbA1cCrosses == Has(labs, "hba1c") /\ Num(labs["hba1c"]) >= 65

\* C9: the diabetes verdict is valid, INFO, 1.0 exactly when glucose is
\* present and >= 126 or hba1c is present and >= 6.5; WARNING exactly when
\* both are absent; CRITICAL, 0.0 in every other case.  Glucose comes first:
\* the valid verdict cites glucose whenever glucose crosses, and hba1c only
\* when glucose is absent or below 126.  A valid diabetes candidate is
\* emitted VALIDATED with confidence min(original, 1.0).
C9_Diabetes ==
    \A j \in Processed : RuleAt(j) = "diabetes" =>
        LET v == log[j].verdict
        IN  /\ Grade(v) =
                 IF GlucoseCrosses \/ HbA1cCrosses THEN <<TRUE, "INFO", 1000>>
                 ELSE IF ~Has(labs, "glucose") /\ ~Has(labs, "hba1c")
                      THEN <<FALSE, "WARNING", 500>>
                 ELSE <<FALSE, "CRITICAL", 0>>
            /\ v.is_valid => v.reason[1] = IF GlucoseCrosses THEN "Glucose" ELSE "HbA1c"
            /\ v.is_valid /\ HasName(j) =>
                 /\ log[j].fate = "VALIDATED"
                 /\ OutputOf(j).validation_status = "VALIDATED"
                 /\ OutputOf(j).confidence =
                        Min(DictGetDefault(diagnoses[j], "confidence", 0), 1000)

\* "Type 2 Diabetes" with glucose 130 and no hba1c, emitted VALIDATED
C9_Witness ==
    \E j \in Processed :
        /\ HasName(j)
        /\ diagnoses[j]["name"] = "Type 2 Diabetes"
        /\ Has(labs, "glucose") /\ Num(labs["glucose"]) = 1300
        /\ ~Has(labs, "hba1c")
        /\ HasConfidence(j)
        /\ log[j].fate = "VALIDATED"
        /\ OutputOf(j).confidence = Min(diagnoses[j]["confidence"], 1000)

\* the keywords of the catalog
Keywords ==
    {"hypertension", "hypotension", "tachycardia", "bradycardia", "diabetes",
     "diabetic", "anemia", "kidney", "renal"}

MatchesNoKeyword(j) ==
    HasName(j) /\ \A kw \in Keywords : ~Contains(kw, lower(diagnoses[j]["name"]))

\* C10: a candidate whose lower-cased name contains no catalog keyword gets
\* the verdict valid, INFO, 1.0 and is emitted VALIDATED with the notes of
\* the no-rule branch, for every patient record and every confidence.
C10_NoKeywordPassesThrough ==
    \A j \in Processed : MatchesNoKeyword(j) =>
        /\ Grade(log[j].verdict) = <<TRUE, "INFO", 1000>>
        /\ log[j].fate = "VALIDATED"
        /\ OutputOf(j).validation_status = "VALIDATED"
        /\ OutputOf(j).rule_engine_notes =
               <<"Diagnosis not validated by clinical rules engine">>

\* "Migraine" emitted VALIDATED for a record that holds measurements
C10_Witness ==
    \E j \in Processed :
        /\ MatchesNoKeyword(j)
        /\ diagnoses[j]["name"] = "Migraine"
        /\ DOMAIN vitals # {}
        /\ log[j].fate = "VALIDATED"

\* the confidence candidate j was supplied with (0 when it has none)
Original(j) == DictGetDefault(diagnoses[j], "confidence", 0)

\* C11 (as claimed): a candidate whose name matches no catalog keyword is
\* emitted with exactly the confidence it was supplied with, for every
\* value, values outside [0, 1] included.
C11_ConfidenceUnchanged ==
    \A j \in Processed : MatchesNoKeyword(j) /\ Emitted(j) =>
        OutputOf(j).confidence = Original(j)

\* C11 (amended): a candidate whose name matches no catalog keyword is
\* emitted VALIDATED with the confidence min(original, 1.0): unchanged for
\* every original value up to 1.0, negative values included, and 1.0 for
\* every original value above 1.0.
C11_ConfidenceCappedAtOne ==
    \A j \in Processed : MatchesNoKeyword(j) =>
        /\ Emitted(j)
        /\ OutputOf(j).validation_status = "VALIDATED"
        /\ Original(j) <= 1000 => OutputOf(j).confidence = Original(j)
        /\ Original(j) > 1000 => OutputOf(j).confidence = 1000

\* "Migraine" supplied with confidence 2.0 came out with confidence 1.0
C11_Witness ==
    /\ pc = "done"
    /\ \E j \in Processed :
        /\ MatchesNoKeyword(j)
        /\ Original(j) = 2000
        /\ Emitted(j)
        /\ OutputOf(j).confidence = 1000

\* C12: every candidate whose verdict is valid (and whose record could be
\* built) is emitted with validation_status VALIDATED, confidence
\* min(original, verdict.max_confidence) and rule_engine_notes verdict.notes.
C12_ValidIsValidated ==
    \A j \in Processed : log[j].verdict.is_valid /\ log[j].fate # "RAISED" =>
        /\ Emitted(j)
        /\ OutputOf(j).validation_status = "VALIDATED"
        /\ OutputOf(j).confidence =
              (IF Original(j) <= log[j].verdict.max_confidence
               THEN Original(j) ELSE log[j].verdict.max_confidence)
        /\ OutputOf(j).rule_engine_notes = log[j].verdict.notes

\* a candidate confirmed by a rule, supplied with more than the verdict's cap
C12_Witness ==
    /\ pc = "done"
    /\ \E j \in Processed :
        /\ RuleAt(j) # "none"
        /\ log[j].verdict.is_valid
        /\ Emitted(j)
        /\ Original(j) > log[j].verdict.max_confidence
        /\ OutputOf(j).confidence = log[j].verdict.max_confidence

\* C13: every candidate whose verdict is invalid and not CRITICAL (and whose
\* record could be built) is emitted with validation_status FLAGGED,
\* confidence max(0.1, original * 0.3) and rule_engine_notes the warning
\* prefix followed by verdict.reason.
C13_WarningIsFlagged ==
    \A j \in Processed :
        /\ ~log[j].verdict.is_valid
        /\ log[j].verdict.severity # "CRITICAL"
        /\ log[j].fate # "RAISED"
        => /\ Emitted(j)
           /\ OutputOf(j).validation_status = "FLAGGED"
           /\ OutputOf(j).confidence =
                 (IF (Original(j) * 3) \div 10 >= 100
                  THEN (Original(j) * 3) \div 10 ELSE 100)
           /\ OutputOf(j).rule_engine_notes = <<"WARNING: ">> \o log[j].verdict.reason

\* "Iron Deficiency Anemia" without a hemoglobin value, supplied with 1.0,
\* came out FLAGGED with 0.3
C13_Witness ==
    /\ pc = "done"
    /\ \E j \in Processed :
        /\ diagnoses[j]["name"] = "Iron Deficiency Anemia"
        /\ ~Has(labs, "hemoglobin")
        /\ log[j].verdict.severity = "WARNING"
        /\ Original(j) = 1000
        /\ Emitted(j)
        /\ OutputOf(j).validation_status = "FLAGGED"
        /\ OutputOf(j).confidence = 300

\* C14 (as claimed): every FLAGGED record has a confidence of at most 0.5,
\* the max_confidence of its WARNING verdict, for every original confidence,
\* values above 1.0 included.
C14_FlaggedAtMostHalf ==
    \A j \in Processed :
        Emitted(j) /\ OutputOf(j).validation_status = "FLAGGED" =>
            /\ OutputOf(j).confidence <= 500
            /\ OutputOf(j).confidence <= log[j].verdict.max_confidence

C20_NameAndEvidenceKept ==
    \A j \in Processed : Emitted(j) =>
        /\ OutputOf(j).name = diagnoses[j]["name"]
        /\ OutputOf(j).evidence =
              (IF "evidence" \in DOMAIN diagnoses[j]
               THEN diagnoses[j]["evidence"] ELSE "")

\* a VALIDATED record whose name has capital letters and whose evidence is
\* the candidate's text
C20_Witness ==
    /\ pc = "done"
    /\ \E j \in Processed :
        /\ Emitted(j)
        /\ OutputOf(j).validation_status = "VALIDATED"
        /\ OutputOf(j).name = "Type 2 Diabetes"
        /\ OutputOf(j).name # lower(OutputOf(j).name)
        /\ OutputOf(j).evidence = "polyuria"

\* C16: a call repeated with the same patient record and the same candidate
\* list, on the same instance or on another one, ends as every earlier call
\* did, with an identical output list; and no call leaves anything behind:
\* the field of every instance is still the catalog it was constructed with.
C16_RepeatedCallSame ==
    /\ \A i \in 1..Len(clinical_rules) : clinical_rules[i] = _initialize_clinical_rules
    /\ pc \in {"done", "raised"} =>
          \A i \in 1..Len(earlier) : earlier[i] = Outcome

\* the second call on the same instance returned the two records the first
\* call returned, a third candidate having been dropped
C16_Witness ==
    /\ pc = "done"
    /\ self = 1
    /\ Len(earlier) = 1
    /\ earlier[1].pc = "done"
    /\ Len(validated_diagnoses) = 2
    /\ earlier[1].result = validated_diagnoses
    /\ validated_diagnoses[1].validation_status # validated_diagnoses[2].validation_status

\* C17: no step of validate_diagnoses changes its arguments: the patient
\* record, the candidate list and every candidate are after the step what
\* they were before it; and an output record is never the dictionary of its
\* candidate (the two differ).
C17_InputsUntouched ==
    [][/\ patient_data' = patient_data
       /\ diagnoses' = diagnoses
       /\ \A j \in 1..Len(log') : log'[j].out # 0 =>
             validated_diagnoses'[log'[j].out] # diagnoses'[j]]_vars

\* a call on a record with structured and textual vitals has returned a
\* VALIDATED and a FLAGGED record
C17_Witness ==
    /\ pc = "done"
    /\ Truthy(DictGetDefault(patient_data, "patient", <<>>))
    /\ "vitals" \in DOMAIN patient_data
    /\ \E j, k \in Processed :
        /\ Emitted(j) /\ Emitted(k)
        /\ OutputOf(j).validation_status = "VALIDATED"
        /\ OutputOf(k).validation_status = "FLAGGED"

\* how call t of the shared instance ended
ThreadOutcome(t) ==
    [pc |-> calls[t].pc,
     result |-> IF calls[t].pc = "done" THEN calls[t].validated_diagnoses ELSE <<>>]

\* C18: when calls on one shared instance interleave step by step, every
\* call that has ended has ended as the same call does when run alone (the
\* same list, or the same exception), and no step has written the field of
\* the instance: clinical_rules is the catalog it was constructed with.
C18_SharedInstanceSafe ==
    /\ clinical_rules = <<_initialize_clinical_rules>>
    /\ \A t \in DOMAIN calls : calls[t].pc \in {"done", "raised"} =>
          ThreadOutcome(t) = RunAlone(calls[t].patient_data, calls[t].diagnoses)

\* a call has returned its two records while another call, with other
\* arguments, sits between the verdict and the branch of its second candidate
C18_Witness ==
    \E t, u \in DOMAIN calls :
        /\ t # u
        /\ calls[t].pc = "done"
        /\ Len(calls[t].validated_diagnoses) = 2
        /\ calls[u].pc = "branch"
        /\ calls[u].idx = 2
        /\ calls[u].patient_data # calls[t].patient_data
        /\ calls[u].validation_result # calls[t].validation_result

\* the single call ends as RunAlone says
RunAloneIsTheCall ==
    pc \in {"done", "raised"} => Outcome = RunAlone(patient_data, diagnoses)

\* C19 (as claimed): for every patient record whose vitals and labs are
\* texts (empty ones and ones no pattern matches included) and every list of
\* candidates, validate_diagnoses never ends with an exception, it returns a
\* list; and a pattern that matches nothing leaves its measurement absent.
C19_NeverPropagates ==
    /\ pc # "raised"
    /\ \A k \in DOMAIN vitals : vitals[k] # None
    /\ \A k \in DOMAIN labs : labs[k] # None

\* the keys of the vitals map, and the patient attribute each is copied from
VitalKeys ==
    {"systolic_bp", "diastolic_bp", "heart_rate", "respiratory_rate",
     "temperature", "spo2"}

\* the patient object of the record (empty when there is none)
PatientOf(pd) == DictGetDefault(pd, "patient", <<>>)

\* the values the text of the record gives, by the patterns
TextVitals(pd) ==
    IF "vitals" \in DOMAIN pd THEN _parse_vitals_from_text(pd["vitals"]) ELSE <<>>

\* C23: structured values are applied first and text values second: a key
\* found both as a structured attribute and in the vitals text holds the
\* value of the text; a key found only as a structured attribute holds the
\* structured value; a key found only in the text holds the value of the
\* text.  (The structured attribute of respiratory_rate is the one the
\* extractor reads, resp_rate; the other five go by the name of the key.)
C23_TextOverridesStructured ==
    pc \in {"vitals", "extracted"} =>
        \A k \in VitalKeys :
            LET attr == IF k = "respiratory_rate" THEN "resp_rate" ELSE k
                structured == DictGet(PatientOf(patient_data), attr)
                text == DictGet(TextVitals(patient_data), k)
            IN  /\ text # None => Has(vitals, k) /\ vitals[k] = text
                /\ text = None /\ structured # None =>
                      Has(vitals, k) /\ vitals[k] = structured

\* a record with systolic_bp 150 as an attribute and "bp 118/76 hr 72" as
\* text: the map holds 118 for systolic_bp, 72 for heart_rate (text only) and
\* 22 for respiratory_rate (structured only)
C23_Witness ==
    /\ pc = "extracted"
    /\ PatientOf(patient_data) =
          [systolic_bp |-> Some(1500), heart_rate |-> None, resp_rate |-> Some(220)]
    /\ DictGet(patient_data, "vitals") = "bp 118/76 hr 72"
    /\ vitals["systolic_bp"] = Some(1180)
    /\ vitals["heart_rate"] = Some(720)
    /\ vitals["respiratory_rate"] = Some(220)

\* C24 (as claimed): every value of an extracted map, vitals or labs, is a
\* number that is not None: no str supplied as a structured attribute is
\* among the values, and a key found by neither the attributes nor the text
\* is absent from the map.
C24_OnlyNumbers ==
    pc = "extracted" =>
        /\ \A k \in DOMAIN vitals : vitals[k] # None /\ IsNumber(vitals[k])
        /\ \A k \in DOMAIN labs : labs[k] # None /\ IsNumber(labs[k])
        /\ \A k \in VitalKeys :
              LET attr == IF k = "respiratory_rate" THEN "resp_rate" ELSE k
              IN  /\ DictGet(PatientOf(patient_data), attr) = None
                  /\ DictGet(TextVitals(patient_data), k) = None
                  => ~Has(vitals, k)

\* vitals texts, a key each writes a number for, the number written (in
\* tenths) and its whole part
WrittenVitals ==
    { [text |-> "BP: 150/95, HR: 110", key |-> "systolic_bp", written |-> 1500, whole |-> 1500],
      [text |-> "BP: 150/95, HR: 110", key |-> "diastolic_bp", written |-> 950, whole |-> 950],
      [text |-> "BP: 150/95, HR: 110", key |-> "heart_rate", written |-> 1100, whole |-> 1100],
      [text |-> "bp 118/76 hr 72", key |-> "systolic_bp", written |-> 1180, whole |-> 1180],
      [text |-> "bp 118/76 hr 72", key |-> "heart_rate", written |-> 720, whole |-> 720],
      [text |-> "HR: 100.5", key |-> "heart_rate", written |-> 1005, whole |-> 1000],
      [text |-> "BP: 139.5/89", key |-> "systolic_bp", written |-> 1395, whole |-> 1390],
      [text |-> "BP 139/89.5", key |-> "systolic_bp", written |-> 1390, whole |-> 1390],
      [text |-> "BP 139/89.5", key |-> "diastolic_bp", written |-> 895, whole |-> 890],
      [text |-> "Temp: 98.6 SpO2: 97", key |-> "temperature", written |-> 986, whole |-> 980],
      [text |-> "Temp: 98.6 SpO2: 97", key |-> "spo2", written |-> 970, whole |-> 970],
      [text |-> "TEMP 37 spo2:97.5", key |-> "temperature", written |-> 370, whole |-> 370],
      [text |-> "TEMP 37 spo2:97.5", key |-> "spo2", written |-> 975, whole |-> 970] }

\* the samples of the text of the record
WrittenHere == { w \in WrittenVitals : DictGet(patient_data, "vitals") = w.text }

\* the value the structured attributes alone give key k, None when none
StructuredOnly(k) ==
    DictGet(PatientOf(patient_data), IF k = "respiratory_rate" THEN "resp_rate" ELSE k)

\* C25 (as claimed): each vitals pattern, BP, HR, Temp and SpO2, takes the
\* label in any letter case, an optional colon and a number with an optional
\* decimal part, and the measurement is the full number written: "HR: 100.5"
\* gives heart_rate 100.5 and "BP: 139.5/89" gives systolic_bp 139.5.
C25_FullNumberExtracted ==
    pc \in {"vitals", "extracted"} =>
        \A w \in WrittenHere : Has(vitals, w.key) /\ vitals[w.key] = Some(w.written)

\* C25 (amended): each pattern takes the label in any letter case and an
\* optional colon; only Temp takes a decimal part and gives the full number
\* written; HR, SpO2 and the diastolic part of BP take digits only and give
\* the whole part of the number ("HR: 100.5" gives heart_rate 100, which is
\* not above 100); a BP whose systolic part has a decimal part is not matched
\* at all ("BP: 139.5/89" gives no blood pressure from the text).
C25_DecimalsOnlyForTemp ==
    pc \in {"vitals", "extracted"} =>
        \A w \in WrittenHere :
            /\ w.key = "temperature" =>
                  Has(vitals, w.key) /\ vitals[w.key] = Some(w.written)
            /\ w.key \in {"heart_rate", "spo2", "diastolic_bp"} =>
                  Has(vitals, w.key) /\ vitals[w.key] = Some(w.whole)
            /\ w.key = "heart_rate" /\ w.whole = 1000 =>
                  ~tachycardia_criteria(vitals[w.key])
            /\ w.key = "systolic_bp" /\ w.written = w.whole =>
                  Has(vitals, w.key) /\ vitals[w.key] = Some(w.written)
            /\ w.key = "systolic_bp" /\ w.written # w.whole =>
                  \A k \in {"systolic_bp", "diastolic_bp"} :
                      IF StructuredOnly(k) = None THEN ~Has(vitals, k)
                      ELSE vitals[k] = StructuredOnly(k)

\* "HR: 100.5" was extracted as heart_rate 100
C25_Witness ==
    /\ pc = "extracted"
    /\ DictGet(patient_data, "vitals") = "HR: 100.5"
    /\ vitals["heart_rate"] = Some(1000)

\* C26 (as claimed): each of the six attributes systolic_bp, diastolic_bp,
\* heart_rate, respiratory_rate, temperature and spo2 of the patient object
\* that is a number and is not overridden by the text is in the map under
\* its own name with its own value.
C26_SameNameCopied ==
    pc \in {"vitals", "extracted"} =>
        \A k \in VitalKeys :
            LET a == DictGet(PatientOf(patient_data), k)
            IN  /\ a # None
                /\ IsNumber(a)
                /\ DictGet(TextVitals(patient_data), k) = None
                => Has(vitals, k) /\ vitals[k] = a

\* C26 (amended): each of the five attributes systolic_bp, diastolic_bp,
\* heart_rate, temperature and spo2 that is a number and is not overridden by
\* the text is in the map under its own name with its own value; the
\* respiratory rate is read from the attribute resp_rate and is in the map
\* as respiratory_rate; an attribute named respiratory_rate is not copied.
C26_RespRateCopied ==
    pc \in {"vitals", "extracted"} =>
        /\ \A k \in VitalKeys \ {"respiratory_rate"} :
              LET a == DictGet(PatientOf(patient_data), k)
              IN  /\ a # None
                  /\ IsNumber(a)
                  /\ DictGet(TextVitals(patient_data), k) = None
                  => Has(vitals, k) /\ vitals[k] = a
        /\ LET r == DictGet(PatientOf(patient_data), "resp_rate")
           IN  IF r # None
               THEN Has(vitals, "respiratory_rate") /\ vitals["respiratory_rate"] = r
               ELSE ~Has(vitals, "respiratory_rate")

\* a patient with respiratory_rate 22, temperature 37.0 and spo2 98 and no
\* resp_rate: the map has the temperature and no respiratory_rate
C26_Witness ==
    /\ pc = "extracted"
    /\ DictGet(PatientOf(patient_data), "respiratory_rate") = Some(220)
    /\ ~Has(vitals, "respiratory_rate")
    /\ Has(vitals, "temperature")
    /\ ~Has(TextVitals(patient_data), "temperature")
    /\ vitals["temperature"] = Some(370)

\* C21: for a record whose vitals text is "BP: s/d, HR: h", the extracted
\* map has systolic_bp s, diastolic_bp d and heart_rate h, and in a batch
\* holding "Hypertension" and "Tachycardia" the first is emitted VALIDATED
\* exactly when s >= 140 or d >= 90 and the second exactly when h > 100.
C21_TextPathEndToEnd ==
    Len(log) > 0 /\ "vitals" \in DOMAIN patient_data =>
        \A s \in SystolicReadings, d \in DiastolicReadings, h \in HeartRateReadings :
            patient_data["vitals"] = BPHRText(s.text, d.text, h.text) =>
                /\ DictGet(vitals, "systolic_bp") = Some(s.value)
                /\ DictGet(vitals, "diastolic_bp") = Some(d.value)
                /\ DictGet(vitals, "heart_rate") = Some(h.value)
                /\ \A j \in Processed :
                      /\ DictGet(diagnoses[j], "name") = "Hypertension" =>
                            (log[j].fate = "VALIDATED"
                               <=> (s.value >= 1400 \/ d.value >= 900))
                      /\ DictGet(diagnoses[j], "name") = "Tachycardia" =>
                            (log[j].fate = "VALIDATED" <=> h.value > 1000)

\* "BP: 150/95, HR: 110" beside structured vitals: both candidates VALIDATED
C21_Witness ==
    /\ pc = "done"
    /\ DictGet(patient_data, "vitals") = "BP: 150/95, HR: 110"
    /\ Truthy(PatientOf(patient_data))
    /\ Len(validated_diagnoses) = 2
    /\ \A o \in 1..2 : validated_diagnoses[o].validation_status = "VALIDATED"
    /\ {validated_diagnoses[o].name : o \in 1..2} = {"Hypertension", "Tachycardia"}

\* the keywords in their priority order, each with the rule it stands for
KeywordOrder ==
    << [kw |-> "hypertension", rule |-> "hypertension"],
       [kw |-> "hypotension",  rule |-> "hypotension"],
       [kw |-> "tachycardia",  rule |-> "tachycardia"],
       [kw |-> "bradycardia",  rule |-> "bradycardia"],
       [kw |-> "diabetes",     rule |-> "diabetes"],
       [kw |-> "diabetic",     rule |-> "diabetes"],
       [kw |-> "anemia",       rule |-> "anemia"],
       [kw |-> "kidney",       rule |-> "kidney_disease"],
       [kw |-> "renal",        rule |-> "kidney_disease"] >>

AllRules ==
    {"hypertension", "hypotension", "tachycardia", "bradycardia", "diabetes",
     "anemia", "kidney_disease", "none"}

\* the rule of the first keyword of the order that occurs in the name
FirstKeywordRule(name) ==
    LET hits == {i \in 1..Len(KeywordOrder) : Contains(KeywordOrder[i].kw, name)}
    IN  IF hits = {} THEN "none"
        ELSE KeywordOrder[CHOOSE i \in hits : \A k \in hits : i <= k].rule

\* the verdict rule r gives candidate j on the extracted maps
VerdictBy(r, j) ==
    ApplyRule(r, vitals, labs, DictGetDefault(diagnoses[j], "evidence", ""))

\* C22: the verdict of every candidate is the verdict of one rule only, the
\* rule of the first keyword, in the order hypertension, hypotension,
\* tachycardia, bradycardia, diabetes/diabetic, anemia, kidney/renal, that
\* occurs in the lower-cased name (the no-rule verdict when none occurs).
C22_FirstKeywordWins ==
    \A j \in Processed :
        LET r == FirstKeywordRule(lower(DictGetDefault(diagnoses[j], "name", "")))
        IN  /\ log[j].verdict = VerdictBy(r, j)
            /\ \A other \in AllRules \ {r} : log[j].verdict # VerdictBy(other, j)

\* "Hypertension with tachycardia" on a record with a normal blood pressure
\* and a fast heart rate: judged by the hypertension rule, and dropped
C22_Witness ==
    /\ pc = "done"
    /\ \E j \in Processed :
        /\ DictGet(diagnoses[j], "name") = "Hypertension with tachycardia"
        /\ log[j].verdict = VerdictBy("hypertension", j)
        /\ log[j].fate = "DROPPED"
        /\ VerdictBy("tachycardia", j).is_valid

\* C27: every verdict is one of three combinations: valid with INFO and
\* max_confidence 1.0, invalid with WARNING and 0.5, invalid with CRITICAL
\* and 0.0; so a verdict is valid exactly when its severity is INFO, and no
\* valid verdict is CRITICAL.
C27_ThreeCombinations ==
    \A j \in Processed :
        /\ Grade(log[j].verdict) \in
              { <<TRUE, "INFO", 1000>>, <<FALSE, "WARNING", 500>>,
                <<FALSE, "CRITICAL", 0>> }
        /\ log[j].verdict.is_valid <=> log[j].verdict.severity = "INFO"

\* one batch whose three candidates got the three combinations
C27_Witness ==
    /\ pc = "done"
    /\ Len(log) = 3
    /\ {Grade(log[j].verdict) : j \in Processed} =
          { <<TRUE, "INFO", 1000>>, <<FALSE, "WARNING", 500>>,
            <<FALSE, "CRITICAL", 0>> }
    /\ \A j \in Processed : RuleAt(j) # "none"

\* the measurements a rule requires
Required(rule) ==
    CASE rule = "hypertension"   -> {"systolic_bp", "diastolic_bp"}
      [] rule = "hypotension"    -> {"systolic_bp"}
      [] rule = "tachycardia"    -> {"heart_rate"}
      [] rule = "bradycardia"    -> {"heart_rate"}
      [] rule = "diabetes"       -> {"glucose", "hba1c"}
      [] rule = "anemia"         -> {"hemoglobin"}
      [] rule = "kidney_disease" -> {"creatinine"}
      [] OTHER                   -> {}

\* a map cut down to some of its keys
Restrict(m, keys) == [k \in (DOMAIN m) \cap keys |-> m[k]]

\* the verdict of the rule of candidate j on a record that holds nothing but
\* the measurements the rule requires, for a candidate without evidence
ProjectedVerdict(j) ==
    ApplyRule(RuleAt(j), Restrict(vitals, Required(RuleAt(j))),
              Restrict(labs, Required(RuleAt(j))), "")

\* C29: the verdict of a rule depends on nothing but the measurements the
\* rule requires: its is_valid, severity and max_confidence, and the status
\* and confidence of the record emitted, are those the same candidate gets on
\* the record cut down to the required measurements, without evidence; so
\* two records that agree on these measurements give the same.
C29_OnlyRequiredMeasurements ==
    \A j \in Processed :
        LET pv == ProjectedVerdict(j)
        IN  /\ Grade(log[j].verdict) = Grade(pv)
            /\ log[j].fate # "RAISED" =>
                  /\ Emitted(j) <=> ~CriticalInvalid(pv)
                  /\ Emitted(j) =>
                        /\ OutputOf(j).validation_status =
                              (IF pv.is_valid THEN "VALIDATED" ELSE "FLAGGED")
                        /\ OutputOf(j).confidence =
                              (IF pv.is_valid
                               THEN (IF Original(j) <= pv.max_confidence
                                     THEN Original(j) ELSE pv.max_confidence)
                               ELSE (IF (Original(j) * 3) \div 10 >= 100
                                     THEN (Original(j) * 3) \div 10 ELSE 100))

\* "Iron Deficiency Anemia" with evidence, on a record that has a blood
\* pressure and a heart rate beside its hemoglobin, confirmed by hemoglobin
C29_Witness ==
    /\ pc = "done"
    /\ \E j \in Processed :
        /\ RuleAt(j) = "anemia"
        /\ DictGetDefault(diagnoses[j], "evidence", "") # ""
        /\ DOMAIN vitals # {}
        /\ DOMAIN labs # {"hemoglobin"}
        /\ Has(labs, "hemoglobin")
        /\ Emitted(j)
        /\ OutputOf(j).validation_status = "VALIDATED"

\* what validate_diagnoses returns for the candidates from..to of the batch
ResultOfPart(from, to) == RunAlone(patient_data, SubSeq(diagnoses, from, to))

\* C28: a call that returns is compositional: for every way of cutting its
\* candidate list into A ++ B, the list returned is the list returned for A
\* followed by the list returned for B; a candidate has the fate it has as
\* a batch of its own, wherever it stands and whatever stands beside it,
\* duplicates of itself included; and the empty batch returns the empty list.
C28_Compositional ==
    pc = "done" =>
        /\ \A k \in 0..Len(diagnoses) :
              /\ ResultOfPart(1, k).pc = "done"
              /\ ResultOfPart(k + 1, Len(diagnoses)).pc = "done"
              /\ validated_diagnoses =
                    ResultOfPart(1, k).result \o ResultOfPart(k + 1, Len(diagnoses)).result
        /\ \A j \in Processed :
              ResultOfPart(j, j).result =
                  (IF Emitted(j) THEN <<OutputOf(j)>> ELSE <<>>)
        /\ Len(diagnoses) = 0 => validated_diagnoses = <<>>

\* a batch of the same candidate twice returned its record twice
C28_Witness ==
    /\ pc = "done"
    /\ Len(diagnoses) = 2
    /\ diagnoses[1] = diagnoses[2]
    /\ Len(validated_diagnoses) = 2
    /\ validated_diagnoses[1] = validated_diagnoses[2]

(***************************************************************************)
(* The application run                                                      *)
(***************************************************************************)
\* the stages in the order of main
StageOrder ==
    <<"aggregate_inputs", "ingest", "analysis", "clinical_rules", "risk",
      "advisory", "render">>

IsPrefix(a, b) == Len(a) <= Len(b) /\ a = SubSeq(b, 1, Len(a))

\* the lists handed to the stages after the rule engine
Downstream ==
    { main.received[i].diagnoses :
        i \in { k \in DOMAIN main.received :
                  main.received[k].stage \in {"risk", "advisory", "render"} } }

\* the names of the candidates the rule engine dropped as CRITICAL-invalid
DroppedNames ==
    { diagnoses[j]["name"] :
        j \in { k \in Processed : CriticalInvalid(log[k].verdict) } }

\* C30: the stages of a run start in the order aggregation, ingestion,
\* analysis, rule engine, risk, advisory, rendering, none skipped; the rule
\* engine is entered only after the analysis stage has returned and is handed
\* the list it returned; risk, advisory and the rendering are handed the list
\* the rule engine returned, which holds no candidate dropped as
\* CRITICAL-invalid; with a mandatory field missing no stage starts
C30_StagesInOrder ==
    main.pc # "idle" =>
        /\ IsPrefix(main.started, StageOrder)
        /\ ~validate_mandatory_fields(main.inputs).is_valid => main.started = <<>>
        /\ main.pc = "awaiting_analysis" => pc = "idle"
        /\ \A i \in DOMAIN main.received :
              main.received[i].stage = "clinical_rules" =>
                  /\ \E k \in DOMAIN main.session : main.session[k] = "Analysis"
                  /\ main.received[i].diagnoses = main.dx_ranked
        /\ \A list \in Downstream :
              /\ pc = "done"
              /\ list \in {validated_diagnoses, <<>>}
              /\ \A k \in DOMAIN list : list[k].name \notin DroppedNames
        /\ \A i \in DOMAIN main.received :
              main.received[i].stage \in {"risk", "advisory"} =>
                  main.received[i].diagnoses = validated_diagnoses

C30_Witness ==
    /\ main.pc = "returned"
    /\ main.started = StageOrder
    /\ DroppedNames # {}
    /\ Len(main.rendered) > 0
    /\ Len(main.dx_ranked) > Len(main.rendered)

====
